---- MODULE Spec2Model ----
(***************************************************************************)
(* Model of the collaborative "instrumento" editor                         *)
(* (frontend/src/app/protected/instrumento/page.tsx): one editor instance  *)
(* ("this client"), the document store it talks to, and the other          *)
(* collaborators writing to the same document.                             *)
(*                                                                         *)
(* Conventions                                                             *)
(*  - A React commit (render + effects) caused by a handler's setState     *)
(*    calls is part of the handler's action; the effects are run in their  *)
(*    declaration order.  A window.setTimeout(..., 0) continuation is the  *)
(*    tail of the action that scheduled it; timers with a real delay       *)
(*    (150, 350, 600, 1200 ms) are separate actions.  The one continuation *)
(*    that races with the effects of the same commit, the reset of         *)
(*    applyingRemoteRef, is read through ApplyingRemoteSeen.               *)
(*  - slidesRef.current always equals slides between actions (effect at    *)
(*    page.tsx:2798), versionRef.current equals instrumentoVersion.        *)
(*  - A JSON text is a sequence of tokens; the empty sequence stands for   *)
(*    both the empty string and null (the code only tests truthiness).     *)
(*  - Time is kept relative to Date.now(): conflictRetry.since is          *)
(*    Date.now() - conflictRetryRef.current.lastAt and suppressLeft is     *)
(*    suppressAutosaveUntilRef.current - Date.now(), both cut off where    *)
(*    the code no longer tells them apart; Tick lets TickMs elapse.        *)
(***************************************************************************)
EXTENDS Integers, Sequences, FiniteSets, TLC

\* ------------------------------------------------------------------------
\* Bounds of the model
\* ------------------------------------------------------------------------
MaxActs == 3
TickMs == 1250
MaxBursts == 62
MaxForeign == 3
MaxNaNBursts == 2
MaxSlides == 3
MaxTyped == 5

\* ------------------------------------------------------------------------
\* Program constants
\* ------------------------------------------------------------------------
HISTORY_MAX == 60
ConflictRetryWindowMs == 1500
SuppressWindowMs == 1200

Me == "me"
Other == "other"
NoVersion == -1

\* ------------------------------------------------------------------------
\* Documents and their JSON serialization
\* ------------------------------------------------------------------------
MkSlide(i, b) == [id |-> i, body |-> b]

\* JSON.stringify of one slide: a NaN number is written as null.
SlideToken(s) == [k |-> "slide", id |-> s.id, body |-> IF s.body = "NaN" THEN "null" ELSE s.body]

LBracket == [k |-> "[", id |-> 0, body |-> ""]

RBracket == [k |-> "]", id |-> 0, body |-> ""]

\* JSON.stringify(slides)
Stringify(doc) == <<LBracket>> \o [i \in 1..Len(doc) |-> SlideToken(doc[i])] \o <<RBracket>>

\* JSON.parse(text) for a text produced by JSON.stringify
Parse(json) == [i \in 1..(Len(json) - 2) |-> MkSlide(json[i + 1].id, json[i + 1].body)]

\* getSlidesJson
getSlidesJson(value) == Stringify(value)

EmptyJson == <<>>

Truthy(json) == json # EmptyJson

LoadedDoc == <<MkSlide(1, "a")>>

Bodies == {"b"}

ForeignBodies == {"c"}

\* ------------------------------------------------------------------------
\* Conflict messages: a message is a sequence of words and numbers
\* ------------------------------------------------------------------------
Word(s) == [t |-> "word", s |-> s, n |-> 0]

Num(n) == [t |-> "num", s |-> "", n |-> n]

\* Index of the first "<key> = <digits>" occurrence (the regular expressions
\* /expected\s*=\s*(\d+)/i and /actual\s*=\s*(\d+)/i), 0 when there is none
MatchAt(msg, key) ==
  LET hits == {i \in 1..(Len(msg) - 2) : msg[i] = Word(key) /\ msg[i + 1] = Word("=") /\ msg[i + 2].t = "num"}
  IN IF hits = {} THEN 0 ELSE CHOOSE i \in hits : \A j \in hits : i <= j

parseVersionConflictMessage(msg) ==
  LET e == MatchAt(msg, "expected")
      a == MatchAt(msg, "actual")
  IN [expected |-> IF e = 0 THEN NoVersion ELSE msg[e + 2].n,
      actual |-> IF a = 0 THEN NoVersion ELSE msg[a + 2].n]

\* The two wordings a store may use for its conflict message
ConflictFormats == {"numbers", "prose"}

ConflictMessage(format, expected, actual) ==
  IF format = "numbers"
  THEN <<Word("Versao desatualizada."), Word("expected"), Word("="), Num(expected), Word("actual"), Word("="), Num(actual)>>
  ELSE <<Word("Versao desatualizada.")>>

\* ------------------------------------------------------------------------
\* State
\*
\* storeSlides .. conflictFormat  the document store: its snapshot, its
\*     version, and the wording it uses for conflict messages
\* toStore          update commands published by this client, in order
\* updatesQ         broadcasts of the topic subscription, in order
\* errorsQ          frames of the private error subscription, in order; the
\*     two subscriptions are not ordered with respect to each other
\* resyncs, saves   requests and responses of the request/response channel
\* loading .. idleTimer  the state, refs and armed timers of the component
\* lastConflict     history variable: the previous conflict handled by the
\*     errors handler (its age, its actual version, what was decided)
\* acts             how many user and environment initiatives have happened
\* userPc .. finalJson  the position and notes of the user of SpecRoundTrip
\*     and of SpecBurst
\* deleteLog        history variable: the slide counts before and after each
\*     click on a thumbnail's delete button
\* savedByFallback  history variable: a create or update request of this
\*     client has succeeded
\* ------------------------------------------------------------------------
VARIABLES
  storeSlides, storeVersion, conflictFormat,
  toStore, updatesQ, errorsQ, resyncs, saves,
  loading, loadedFromApi, canSaveToApi, shouldUsePost, wsConnected,
  slides, instrumentoVersion,
  pendingWsSave, wsDirtyWhileSaving, pendingWsSavedJson,
  lastSavedSlidesJson, dirtySinceLastPersist, saveStatus, lastSaveError,
  conflictRetry, lastConflict, suppressLeft,
  saveTimer, retryTimers, idleTimer,
  historyInitialized, historyBaselineJson, undoStack, redoStack,
  historyPendingFromJson, historyDebounceTimer,
  acts,
  userPc, bursts, undone, startJson, finalJson, deleteLog, savedByFallback

storeVars == <<storeSlides, storeVersion, conflictFormat>>

netVars == <<toStore, updatesQ, errorsQ, resyncs, saves>>

loadVars == <<loading, loadedFromApi, canSaveToApi>>

wsSaveVars == <<pendingWsSave, wsDirtyWhileSaving, pendingWsSavedJson>>

histVars == <<historyInitialized, historyBaselineJson, undoStack, redoStack, historyPendingFromJson, historyDebounceTimer>>

userVars == <<userPc, bursts, undone, startJson, finalJson, deleteLog, savedByFallback>>

vars == <<storeVars, netVars, loadVars, shouldUsePost, wsConnected, slides, instrumentoVersion,
          wsSaveVars, lastSavedSlidesJson, dirtySinceLastPersist, saveStatus, lastSaveError,
          conflictRetry, lastConflict, suppressLeft, saveTimer, retryTimers, idleTimer,
          histVars, acts, userVars>>

DefaultDoc == <<MkSlide(1, "blank")>>

Max(a, b) == IF a >= b THEN a ELSE b

\* The state after construction, for a store that words its conflicts as
\* `format` and holds the document `doc`
InitStore(format, doc) ==
  /\ storeSlides = doc
  /\ storeVersion = 1
  /\ conflictFormat = format
  /\ toStore = <<>> /\ updatesQ = <<>> /\ errorsQ = <<>> /\ resyncs = <<>> /\ saves = <<>>
  /\ loading = TRUE /\ loadedFromApi = FALSE /\ canSaveToApi = FALSE
  /\ shouldUsePost = TRUE
  /\ wsConnected = FALSE
  /\ slides = DefaultDoc
  /\ instrumentoVersion = NoVersion
  /\ pendingWsSave = FALSE /\ wsDirtyWhileSaving = FALSE /\ pendingWsSavedJson = EmptyJson
  /\ lastSavedSlidesJson = EmptyJson
  /\ dirtySinceLastPersist = FALSE
  /\ saveStatus = "idle"
  /\ lastSaveError = ""
  /\ conflictRetry = [since |-> ConflictRetryWindowMs, lastActual |-> NoVersion]
  /\ lastConflict = [since |-> ConflictRetryWindowMs, actual |-> NoVersion, admitted |-> FALSE, retried |-> FALSE]
  /\ suppressLeft = 0
  /\ saveTimer = FALSE /\ retryTimers = 0 /\ idleTimer = FALSE
  /\ historyInitialized = FALSE /\ historyBaselineJson = EmptyJson
  /\ undoStack = <<>> /\ redoStack = <<>>
  /\ historyPendingFromJson = EmptyJson /\ historyDebounceTimer = FALSE
  /\ acts = 0
  /\ userPc = "free" /\ bursts = 0 /\ undone = 0 /\ startJson = EmptyJson /\ finalJson = EmptyJson
  /\ deleteLog = <<>> /\ savedByFallback = FALSE

InitWith(format) == InitStore(format, LoadedDoc)

Init == \E format \in ConflictFormats : InitWith(format)

InitSync == InitWith("numbers")

\* ------------------------------------------------------------------------
\* Effects run by a commit (in declaration order).  `remote` is the value of
\* applyingRemoteRef.current, `applyingHistory` of isApplyingHistoryRef.current
\* while the effects run.  They read the values the handler has just written
\* (primed) and write the variables they own.
\* ------------------------------------------------------------------------

\* (variant that records the state after the burst instead of the one before it)
flushPendingHistoryCommit_PushesCurrent(fromJson, currentJson, undo, redo) ==
  IF fromJson = <<>> \/ currentJson = fromJson
  THEN [undo |-> undo, redo |-> redo, baseline |-> currentJson]
  ELSE [undo |-> Append(undo, currentJson), redo |-> <<>>, baseline |-> currentJson]

\* (variant in which the effects always run before the reset of the ref)
ApplyingRemoteSeen_AlwaysSet == {TRUE}

\* The value of applyingRemoteRef.current that the effects of a commit read
\* after a handler has set the ref, called setSlides and scheduled the reset
\* of the ref with window.setTimeout(..., 0): the commit's passive effects
\* and the timer callback are separate tasks, and either may run first.
ApplyingRemoteSeen == {TRUE, FALSE}

\* (variant that never discards the oldest entry)
flushPendingHistoryCommit_NoCap(fromJson, currentJson, undo, redo) ==
  IF ~Truthy(fromJson) \/ currentJson = fromJson
  THEN [undo |-> undo, redo |-> redo, baseline |-> currentJson]
  ELSE [undo |-> Append(undo, fromJson), redo |-> <<>>, baseline |-> currentJson]

\* flushPendingHistoryCommit on given values; the result is the new
\* <<undo stack, redo stack, baseline>>
flushPendingHistoryCommit(fromJson, currentJson, undo, redo) ==
  IF ~Truthy(fromJson) \/ currentJson = fromJson
  THEN [undo |-> undo, redo |-> redo, baseline |-> currentJson]
  ELSE LET pushed == Append(undo, fromJson)
           capped == IF Len(pushed) > HISTORY_MAX
                     THEN SubSeq(pushed, Len(pushed) - HISTORY_MAX + 1, Len(pushed))
                     ELSE pushed
       IN [undo |-> capped, redo |-> <<>>, baseline |-> currentJson]

\* initHistoryIfNeeded: is the history initialized after the call
InitializedAfter(initialized, isLoading, isLoaded) ==
  initialized \/ ~(isLoading \/ ~isLoaded)

\* The history capture effect (deps: slides, loading, loadedFromApi)
HistoryEffect(remote, applyingHistory) ==
  LET init == InitializedAfter(historyInitialized, loading', loadedFromApi')
      fresh == init /\ ~historyInitialized
      nextJson == getSlidesJson(slides')
      base0 == IF fresh THEN nextJson ELSE historyBaselineJson
      undo0 == IF fresh THEN <<>> ELSE undoStack
      redo0 == IF fresh THEN <<>> ELSE redoStack
      pend0 == IF fresh THEN EmptyJson ELSE historyPendingFromJson
      timer0 == IF fresh THEN FALSE ELSE historyDebounceTimer
  IN /\ historyInitialized' = init
     /\ IF ~init \/ applyingHistory
        THEN /\ historyBaselineJson' = base0 /\ undoStack' = undo0 /\ redoStack' = redo0
             /\ historyPendingFromJson' = pend0 /\ historyDebounceTimer' = timer0
        ELSE IF remote
        THEN /\ historyBaselineJson' = nextJson /\ undoStack' = <<>> /\ redoStack' = <<>>
             /\ historyPendingFromJson' = EmptyJson /\ historyDebounceTimer' = FALSE
        ELSE IF ~Truthy(base0)
        THEN /\ historyBaselineJson' = nextJson /\ undoStack' = undo0 /\ redoStack' = redo0
             /\ historyPendingFromJson' = pend0 /\ historyDebounceTimer' = timer0
        ELSE IF nextJson = base0
        THEN /\ historyBaselineJson' = base0 /\ undoStack' = undo0 /\ redoStack' = redo0
             /\ historyPendingFromJson' = pend0 /\ historyDebounceTimer' = timer0
        ELSE /\ historyBaselineJson' = base0 /\ undoStack' = undo0 /\ redoStack' = redo0
             /\ historyPendingFromJson' = (IF Truthy(pend0) THEN pend0 ELSE base0)
             /\ historyDebounceTimer' = TRUE

\* (variant that only notes mutations made while a publish is in flight)
DirtyEffect_OnlyInFlight(remote, dirtyIn, flagIn) ==
  IF loading' \/ ~loadedFromApi' \/ remote \/ 0 < suppressLeft'
  THEN /\ dirtySinceLastPersist' = dirtyIn
       /\ wsDirtyWhileSaving' = flagIn
  ELSE /\ dirtySinceLastPersist' = (dirtyIn \/ (wsConnected' /\ pendingWsSave'))
       /\ wsDirtyWhileSaving' = (flagIn \/ (wsConnected' /\ pendingWsSave'))

\* (variant without the suppression window)
DirtyEffect_NoWindow(remote, dirtyIn, flagIn) ==
  IF loading' \/ ~loadedFromApi' \/ remote
  THEN /\ dirtySinceLastPersist' = dirtyIn
       /\ wsDirtyWhileSaving' = flagIn
  ELSE /\ dirtySinceLastPersist' = TRUE
       /\ wsDirtyWhileSaving' = (flagIn \/ (wsConnected' /\ pendingWsSave'))

\* The dirty-marking effect (deps: slides, loading, loadedFromApi, wsConnected);
\* dirtyIn and flagIn are the values the handler left in the two refs
DirtyEffect(remote, dirtyIn, flagIn) ==
  IF loading' \/ ~loadedFromApi' \/ remote \/ 0 < suppressLeft'
  THEN /\ dirtySinceLastPersist' = dirtyIn
       /\ wsDirtyWhileSaving' = flagIn
  ELSE /\ dirtySinceLastPersist' = TRUE
       /\ wsDirtyWhileSaving' = (flagIn \/ (wsConnected' /\ pendingWsSave'))

\* The autosave effect (deps: slides, loading, shouldUsePost, canSaveToApi,
\* wsConnected): its cleanup clears the timer, its body may arm it again
AutosaveEffect(remote) ==
  saveTimer' = ( /\ canSaveToApi'
                 /\ ~loading'
                 /\ ~remote
                 /\ ~(0 < suppressLeft')
                 /\ dirtySinceLastPersist'
                 /\ ~(wsConnected' /\ pendingWsSave')
                 /\ getSlidesJson(slides') # lastSavedSlidesJson' )

\* ------------------------------------------------------------------------
\* publishWsSnapshot: the values of the three refs and of the channel to the
\* store after the call, and its return value
\* ------------------------------------------------------------------------
UpdateCommand(doc, expected, eventType) ==
  [slides |-> Stringify(doc), expectedVersion |-> expected, clientId |-> Me, eventType |-> eventType]

\* (variant without the in-flight guard)
publishWsSnapshot_NoGuard(connected, pend, flag, savedJson, queue, doc, ver, eventType) ==
  IF ~connected
  THEN [ok |-> FALSE, pending |-> pend, flag |-> flag, savedJson |-> savedJson, queue |-> queue]
  ELSE [ok |-> TRUE, pending |-> TRUE, flag |-> flag, savedJson |-> Stringify(doc),
        queue |-> Append(queue, UpdateCommand(doc, ver, eventType))]

publishWsSnapshot(connected, pend, flag, savedJson, queue, doc, ver, eventType) ==
  IF ~connected
  THEN [ok |-> FALSE, pending |-> pend, flag |-> flag, savedJson |-> savedJson, queue |-> queue]
  ELSE IF pend
  THEN [ok |-> TRUE, pending |-> TRUE, flag |-> TRUE, savedJson |-> savedJson, queue |-> queue]
  ELSE [ok |-> TRUE, pending |-> TRUE, flag |-> flag, savedJson |-> Stringify(doc),
        queue |-> Append(queue, UpdateCommand(doc, ver, eventType))]

\* ------------------------------------------------------------------------
\* Initial load (load effect)
\* ------------------------------------------------------------------------
LoadOk ==
  /\ loading
  /\ slides' = Parse(Stringify(storeSlides))
  /\ instrumentoVersion' = storeVersion
  /\ suppressLeft' = Max(suppressLeft, SuppressWindowMs)
  /\ lastSavedSlidesJson' = Stringify(slides')
  /\ loadedFromApi' = TRUE /\ canSaveToApi' = TRUE /\ loading' = FALSE
  /\ UNCHANGED <<wsConnected, pendingWsSave>>
  /\ \E remote \in ApplyingRemoteSeen :
        /\ HistoryEffect(remote, FALSE)
        /\ DirtyEffect(remote, FALSE, wsDirtyWhileSaving)
        /\ AutosaveEffect(remote)
  /\ UNCHANGED <<storeVars, netVars, shouldUsePost, pendingWsSavedJson, saveStatus, lastSaveError, conflictRetry,
                 lastConflict, retryTimers, idleTimer, acts, userVars>>

LoadFail ==
  /\ loading
  /\ acts < MaxActs
  /\ acts' = acts + 1
  /\ loadedFromApi' = FALSE /\ canSaveToApi' = FALSE /\ loading' = FALSE
  /\ UNCHANGED <<slides, pendingWsSave, suppressLeft, lastSavedSlidesJson>>
  /\ HistoryEffect(FALSE, FALSE)
  /\ DirtyEffect(FALSE, dirtySinceLastPersist, wsDirtyWhileSaving)
  /\ AutosaveEffect(FALSE)
  /\ UNCHANGED <<storeVars, netVars, shouldUsePost, wsConnected, instrumentoVersion, pendingWsSavedJson,
                 saveStatus, lastSaveError, conflictRetry, lastConflict, retryTimers, idleTimer, userVars>>

\* ------------------------------------------------------------------------
\* Push channel connection (client.onConnect, client.onWebSocketClose)
\* ------------------------------------------------------------------------
\* (variant that activates the client whatever the load returned)
ConnectAllowed_Always == TRUE

\* The connect effect returns before creating the client until the load succeeded
ConnectAllowed == loadedFromApi

ConnectWs ==
  /\ ConnectAllowed
  /\ ~wsConnected
  /\ wsConnected' = TRUE
  /\ UNCHANGED <<slides, loadVars, pendingWsSave, suppressLeft, lastSavedSlidesJson>>
  /\ DirtyEffect(FALSE, dirtySinceLastPersist, wsDirtyWhileSaving)
  /\ AutosaveEffect(FALSE)
  /\ UNCHANGED <<storeVars, netVars, shouldUsePost, instrumentoVersion, pendingWsSavedJson, saveStatus, lastSaveError,
                 conflictRetry, lastConflict, retryTimers, idleTimer, histVars, acts, userVars>>

\* The connection drops: what was on its way to this client is lost, and what
\* this client had sent may or may not still reach the store
onWebSocketClose ==
  /\ wsConnected
  /\ acts < MaxActs
  /\ acts' = acts + 1
  /\ wsConnected' = FALSE
  /\ updatesQ' = <<>> /\ errorsQ' = <<>>
  /\ toStore' \in {toStore, <<>>}
  /\ lastSaveError' = "WS desconectado"
  /\ UNCHANGED <<slides, loadVars, pendingWsSave, suppressLeft, lastSavedSlidesJson>>
  /\ DirtyEffect(FALSE, dirtySinceLastPersist, wsDirtyWhileSaving)
  /\ AutosaveEffect(FALSE)
  /\ UNCHANGED <<storeVars, resyncs, saves, shouldUsePost, instrumentoVersion, pendingWsSavedJson, saveStatus,
                 conflictRetry, lastConflict, retryTimers, idleTimer, histVars, userVars>>

\* ------------------------------------------------------------------------
\* A local mutation of the slides (any setSlides of an editing handler)
\* ------------------------------------------------------------------------
EditorShown == ~loading /\ loadedFromApi

ApplyLocal(doc) ==
  /\ slides' = doc
  /\ UNCHANGED <<loadVars, wsConnected, pendingWsSave, suppressLeft, lastSavedSlidesJson>>
  /\ HistoryEffect(FALSE, FALSE)
  /\ DirtyEffect(FALSE, dirtySinceLastPersist, wsDirtyWhileSaving)
  /\ AutosaveEffect(FALSE)
  /\ UNCHANGED <<storeVars, netVars, shouldUsePost, instrumentoVersion, pendingWsSavedJson, saveStatus, lastSaveError,
                 conflictRetry, lastConflict, retryTimers, idleTimer>>

EditedDocs(doc) == IF doc = <<>> THEN {} ELSE {[doc EXCEPT ![1].body = b] : b \in Bodies}

LocalEdit ==
  /\ EditorShown
  /\ userPc = "free"
  /\ acts < MaxActs
  /\ acts' = acts + 1
  /\ \E doc \in EditedDocs(slides) : ApplyLocal(doc)
  /\ UNCHANGED <<userVars>>

\* ------------------------------------------------------------------------
\* Saving: the autosave timer (600 ms) and the manual save button
\* ------------------------------------------------------------------------
\* (variant that always creates)
SaveRequest_AlwaysCreate(doc, usePost) ==
  [kind |-> "create", json |-> Stringify(doc), stage |-> "req", version |-> NoVersion]

SaveRequest(doc, usePost) ==
  [kind |-> IF usePost THEN "create" ELSE "update", json |-> Stringify(doc), stage |-> "req", version |-> NoVersion]

\* The body shared by the autosave timer callback and handleManualSave
SaveNow(eventType) ==
  LET r == publishWsSnapshot(wsConnected, pendingWsSave, wsDirtyWhileSaving, pendingWsSavedJson,
                             toStore, slides, instrumentoVersion, eventType)
  IN /\ lastSaveError' = ""
     /\ IF wsConnected
        THEN /\ pendingWsSave' = r.pending
             /\ wsDirtyWhileSaving' = r.flag
             /\ pendingWsSavedJson' = r.savedJson
             /\ toStore' = r.queue
             /\ saveStatus' = (IF r.ok THEN "saving" ELSE "error")
             /\ UNCHANGED saves
        ELSE /\ saves' = Append(saves, SaveRequest(slides, shouldUsePost))
             /\ saveStatus' = "saving"
             /\ UNCHANGED <<wsSaveVars, toStore>>

AutosaveFire ==
  /\ saveTimer
  /\ saveTimer' = FALSE
  /\ SaveNow("SNAPSHOT_UPDATE")
  /\ UNCHANGED <<storeVars, updatesQ, errorsQ, resyncs, loadVars, shouldUsePost, wsConnected, slides,
                 instrumentoVersion, lastSavedSlidesJson, dirtySinceLastPersist, conflictRetry, lastConflict,
                 suppressLeft, retryTimers, idleTimer, histVars, acts, userVars>>

handleManualSave ==
  /\ EditorShown
  /\ canSaveToApi
  /\ userPc = "free"
  /\ acts < MaxActs
  /\ acts' = acts + 1
  /\ SaveNow("SNAPSHOT_UPDATE")
  /\ UNCHANGED <<storeVars, updatesQ, errorsQ, resyncs, loadVars, shouldUsePost, wsConnected, slides,
                 instrumentoVersion, lastSavedSlidesJson, dirtySinceLastPersist, conflictRetry, lastConflict,
                 suppressLeft, saveTimer, retryTimers, idleTimer, histVars, userVars>>

\* The 150 ms retry timer armed by a version conflict
RetryFire ==
  /\ retryTimers > 0
  /\ retryTimers' = retryTimers - 1
  /\ LET r == publishWsSnapshot(wsConnected, pendingWsSave, wsDirtyWhileSaving, pendingWsSavedJson,
                                toStore, slides, instrumentoVersion, "INTERNAL_RETRY")
     IN /\ pendingWsSave' = r.pending
        /\ wsDirtyWhileSaving' = r.flag
        /\ pendingWsSavedJson' = r.savedJson
        /\ toStore' = r.queue
        /\ saveStatus' = (IF r.ok THEN "saving" ELSE "error")
        /\ lastSaveError' = (IF ~r.ok THEN "WS nao conectado"
                             ELSE IF pendingWsSave THEN lastSaveError ELSE "")
  /\ UNCHANGED <<storeVars, updatesQ, errorsQ, resyncs, saves, loadVars, shouldUsePost, wsConnected, slides,
                 instrumentoVersion, lastSavedSlidesJson, dirtySinceLastPersist, conflictRetry, lastConflict,
                 suppressLeft, saveTimer, idleTimer, histVars, acts, userVars>>

\* ------------------------------------------------------------------------
\* The document store and the other collaborators
\* ------------------------------------------------------------------------
Broadcast(doc, ver, cid) == [slides |-> Stringify(doc), version |-> ver, clientId |-> cid]

ErrorReply(code, message, cid) == [kind |-> "json", code |-> code, message |-> message, clientId |-> cid]

NonJsonReply == [kind |-> "nonjson", code |-> "", message |-> <<>>, clientId |-> ""]

Deliver(queue, m) == IF wsConnected THEN Append(queue, m) ELSE queue

\* The store handles the update command at the head of the channel
StoreUpdate ==
  /\ toStore # <<>>
  /\ LET m == Head(toStore)
     IN /\ toStore' = Tail(toStore)
        /\ IF m.expectedVersion = storeVersion
           THEN /\ storeVersion' = storeVersion + 1
                /\ storeSlides' = Parse(m.slides)
                /\ updatesQ' = Deliver(updatesQ, Broadcast(storeSlides', storeVersion', m.clientId))
                /\ UNCHANGED errorsQ
           ELSE /\ errorsQ' = Deliver(errorsQ, ErrorReply("VERSION_CONFLICT",
                                 ConflictMessage(conflictFormat, m.expectedVersion, storeVersion), m.clientId))
                /\ UNCHANGED <<storeSlides, storeVersion, updatesQ>>
  /\ UNCHANGED <<conflictFormat, resyncs, saves, loadVars, shouldUsePost, wsConnected, slides,
                 instrumentoVersion, wsSaveVars, lastSavedSlidesJson, dirtySinceLastPersist, saveStatus, lastSaveError,
                 conflictRetry, lastConflict, suppressLeft, saveTimer, retryTimers, idleTimer, histVars, acts,
                 userVars>>

FaultReplies == {ErrorReply("FORBIDDEN", <<Word("Sem permissao")>>, Me),
                 ErrorReply("", <<>>, ""),
                 NonJsonReply}

\* The store rejects the update command for a reason other than its version
StoreReject ==
  /\ toStore # <<>>
  /\ acts < MaxActs
  /\ acts' = acts + 1
  /\ toStore' = Tail(toStore)
  /\ \E reply \in FaultReplies : errorsQ' = Deliver(errorsQ, reply)
  /\ UNCHANGED <<storeVars, updatesQ, resyncs, saves, loadVars, shouldUsePost, wsConnected, slides,
                 instrumentoVersion, wsSaveVars, lastSavedSlidesJson, dirtySinceLastPersist, saveStatus, lastSaveError,
                 conflictRetry, lastConflict, suppressLeft, saveTimer, retryTimers, idleTimer, histVars,
                 userVars>>

\* Another collaborator's update is accepted by the store and broadcast
ForeignWrite ==
  /\ acts < MaxActs
  /\ acts' = acts + 1
  /\ \E b \in ForeignBodies : storeSlides' = <<MkSlide(1, b)>>
  /\ storeVersion' = storeVersion + 1
  /\ updatesQ' = Deliver(updatesQ, Broadcast(storeSlides', storeVersion', Other))
  /\ UNCHANGED <<conflictFormat, toStore, errorsQ, resyncs, saves, loadVars, shouldUsePost, wsConnected, slides,
                 instrumentoVersion, wsSaveVars, lastSavedSlidesJson, dirtySinceLastPersist, saveStatus, lastSaveError,
                 conflictRetry, lastConflict, suppressLeft, saveTimer, retryTimers, idleTimer, histVars,
                 userVars>>

\* Another session of the same account is refused an update: its error reply
\* reaches this client's private queue too
ForeignConflict ==
  /\ wsConnected
  /\ acts < MaxActs
  /\ acts' = acts + 1
  /\ errorsQ' = Append(errorsQ, ErrorReply("VERSION_CONFLICT",
                         ConflictMessage(conflictFormat, storeVersion - 1, storeVersion), Other))
  /\ UNCHANGED <<storeVars, toStore, updatesQ, resyncs, saves, loadVars, shouldUsePost, wsConnected, slides,
                 instrumentoVersion, wsSaveVars, lastSavedSlidesJson, dirtySinceLastPersist, saveStatus, lastSaveError,
                 conflictRetry, lastConflict, suppressLeft, saveTimer, retryTimers, idleTimer, histVars,
                 userVars>>

\* ------------------------------------------------------------------------
\* The updates subscription handler (/topic/instrumentos/{turmaId})
\* ------------------------------------------------------------------------
IsOwnEcho(payload) == payload.clientId # "" /\ payload.clientId = Me

\* (variant that applies the echoed slides like a foreign broadcast)
OwnEchoBranch_Applies(payload) ==
  /\ slides' = Parse(payload.slides)
  /\ lastSavedSlidesJson' = Stringify(slides')
  /\ dirtySinceLastPersist' = FALSE
  /\ pendingWsSave' = FALSE /\ wsDirtyWhileSaving' = FALSE /\ pendingWsSavedJson' = EmptyJson
  /\ saveStatus' = "saved" /\ idleTimer' = TRUE /\ lastSaveError' = ""
  /\ UNCHANGED <<toStore, suppressLeft, saveTimer, histVars>>

\* (variant that acknowledges without flushing what was marked during the flight)
OwnEchoBranch_NoFlush(payload) ==
  /\ lastSavedSlidesJson' = (IF pendingWsSave /\ Truthy(pendingWsSavedJson)
                             THEN pendingWsSavedJson ELSE lastSavedSlidesJson)
  /\ dirtySinceLastPersist' = (IF pendingWsSave THEN FALSE ELSE dirtySinceLastPersist)
  /\ pendingWsSave' = FALSE /\ wsDirtyWhileSaving' = FALSE
  /\ pendingWsSavedJson' = (IF pendingWsSave THEN EmptyJson ELSE pendingWsSavedJson)
  /\ saveStatus' = (IF pendingWsSave THEN "saved" ELSE saveStatus)
  /\ lastSaveError' = (IF pendingWsSave THEN "" ELSE lastSaveError)
  /\ idleTimer' = (idleTimer \/ pendingWsSave)
  /\ UNCHANGED <<toStore, slides, suppressLeft, saveTimer, histVars>>

\* Own echo: bookkeeping only, then the flush of what was marked during the flight
OwnEchoBranch(payload) ==
  LET acked == pendingWsSave
      saved == IF acked /\ Truthy(pendingWsSavedJson) THEN pendingWsSavedJson ELSE lastSavedSlidesJson
      r == publishWsSnapshot(wsConnected, FALSE, FALSE,
                             IF acked THEN EmptyJson ELSE pendingWsSavedJson,
                             toStore, slides, payload.version, "SNAPSHOT_UPDATE")
  IN /\ lastSavedSlidesJson' = saved
     /\ dirtySinceLastPersist' = (IF acked THEN FALSE ELSE dirtySinceLastPersist)
     /\ idleTimer' = (idleTimer \/ acked)
     /\ lastSaveError' = (IF acked \/ wsDirtyWhileSaving THEN "" ELSE lastSaveError)
     /\ IF wsDirtyWhileSaving
        THEN /\ pendingWsSave' = r.pending
             /\ wsDirtyWhileSaving' = r.flag
             /\ pendingWsSavedJson' = r.savedJson
             /\ toStore' = r.queue
             /\ saveStatus' = "saving"
        ELSE /\ pendingWsSave' = FALSE
             /\ wsDirtyWhileSaving' = FALSE
             /\ pendingWsSavedJson' = (IF acked THEN EmptyJson ELSE pendingWsSavedJson)
             /\ toStore' = toStore
             /\ saveStatus' = (IF acked THEN "saved" ELSE saveStatus)
     /\ UNCHANGED <<slides, suppressLeft, saveTimer, histVars>>

\* (variant that keeps a dirty local document instead of replacing it)
ForeignBranch_KeepsDirty(payload) ==
  IF dirtySinceLastPersist
  THEN UNCHANGED <<slides, suppressLeft, lastSavedSlidesJson, loadVars, wsConnected, wsSaveVars, toStore,
                   saveStatus, lastSaveError, idleTimer, histVars, dirtySinceLastPersist, saveTimer>>
  ELSE /\ slides' = Parse(payload.slides)
       /\ suppressLeft' = Max(suppressLeft, SuppressWindowMs)
       /\ lastSavedSlidesJson' = Stringify(slides')
       /\ UNCHANGED <<loadVars, wsConnected, pendingWsSave, pendingWsSavedJson, toStore, saveStatus, lastSaveError, idleTimer>>
       /\ HistoryEffect(TRUE, FALSE)
       /\ DirtyEffect(TRUE, FALSE, wsDirtyWhileSaving)
       /\ AutosaveEffect(TRUE)

\* Foreign broadcast: the slides are replaced as a remote update
ForeignBranch(payload) ==
  /\ slides' = Parse(payload.slides)
  /\ suppressLeft' = Max(suppressLeft, SuppressWindowMs)
  /\ lastSavedSlidesJson' = Stringify(slides')
  /\ UNCHANGED <<loadVars, wsConnected, pendingWsSave, pendingWsSavedJson, toStore, saveStatus, lastSaveError, idleTimer>>
  /\ \E remote \in ApplyingRemoteSeen :
        /\ HistoryEffect(remote, FALSE)
        /\ DirtyEffect(remote, FALSE, wsDirtyWhileSaving)
        /\ AutosaveEffect(remote)

RecvUpdate ==
  /\ updatesQ # <<>>
  /\ LET payload == Head(updatesQ)
     IN /\ updatesQ' = Tail(updatesQ)
        /\ instrumentoVersion' = payload.version
        /\ IF IsOwnEcho(payload)
           THEN OwnEchoBranch(payload) /\ UNCHANGED <<loadVars, wsConnected>>
           ELSE ForeignBranch(payload)
  /\ UNCHANGED <<storeVars, errorsQ, resyncs, saves, shouldUsePost, conflictRetry, lastConflict, retryTimers,
                 acts, userVars>>

\* ------------------------------------------------------------------------
\* The errors subscription handler (/user/queue/instrumentos/errors), up to
\* its await
\* ------------------------------------------------------------------------
IsMalformed(err) == err.kind = "nonjson" \/ err.code = ""

\* (variant that takes every reply for one of this client)
IsForOther_Never(err) == FALSE

\* The reply carries the id of another client
IsForOther(err) == err.clientId # "" /\ err.clientId # Me

\* (variant that takes every error code for a version conflict)
IsVersionConflict_AnyCode(err) == TRUE

IsVersionConflict(err) == err.code = "VERSION_CONFLICT"

\* (variant that retries whether or not there is a local change to defend)
RetryTaken_IgnoresDirty(admitted, dirty) == admitted

\* The automatic retry is taken when admitted and the document is dirty
RetryTaken(admitted, dirty) == admitted /\ dirty

ResyncRequest == [stage |-> "req", slides |-> EmptyJson, version |-> NoVersion]

\* (variant without the 1.5 s window)
RetryAdmitted_NoWindow(last, actual) == TRUE

\* Is the automatic retry admitted by the rate limit (conflictRetryRef)
RetryAdmitted(last, actual) ==
  LET sameActual == actual # NoVersion /\ last.lastActual = actual
      tooSoon == last.since < ConflictRetryWindowMs
  IN ~tooSoon \/ ~sameActual

\* (variant that does not adopt the actual version of the conflict message)
VersionConflictBranch_KeepsVersion(err) ==
  LET parsed == parseVersionConflictMessage(err.message)
      admitted == RetryAdmitted(conflictRetry, parsed.actual)
      retry == RetryTaken(admitted, dirtySinceLastPersist)
  IN /\ instrumentoVersion' = instrumentoVersion
     /\ conflictRetry' = (IF admitted THEN [since |-> 0, lastActual |-> parsed.actual] ELSE conflictRetry)
     /\ lastConflict' = [since |-> 0, actual |-> parsed.actual, admitted |-> admitted, retried |-> retry]
     /\ lastSaveError' = "VERSION_CONFLICT"
     /\ IF retry
        THEN /\ retryTimers' = retryTimers + 1
             /\ saveStatus' = "saving"
             /\ UNCHANGED resyncs
        ELSE /\ saveStatus' = "error"
             /\ resyncs' = Append(resyncs, ResyncRequest)
             /\ UNCHANGED retryTimers

VersionConflictBranch(err) ==
  LET parsed == parseVersionConflictMessage(err.message)
      admitted == RetryAdmitted(conflictRetry, parsed.actual)
      retry == RetryTaken(admitted, dirtySinceLastPersist)
  IN /\ instrumentoVersion' = (IF parsed.actual # NoVersion THEN parsed.actual ELSE instrumentoVersion)
     /\ conflictRetry' = (IF admitted THEN [since |-> 0, lastActual |-> parsed.actual] ELSE conflictRetry)
     /\ lastConflict' = [since |-> 0, actual |-> parsed.actual, admitted |-> admitted, retried |-> retry]
     /\ lastSaveError' = "VERSION_CONFLICT"
     /\ IF retry
        THEN /\ retryTimers' = retryTimers + 1
             /\ saveStatus' = "saving"
             /\ UNCHANGED resyncs
        ELSE /\ saveStatus' = "error"
             /\ resyncs' = Append(resyncs, ResyncRequest)
             /\ UNCHANGED retryTimers

\* (variant that reports the error and leaves the in-flight flag alone)
MalformedBranch_KeepsInFlight ==
  /\ saveStatus' = "error"
  /\ lastSaveError' = "Resposta invalida"
  /\ UNCHANGED <<wsSaveVars, instrumentoVersion, conflictRetry, lastConflict, retryTimers, resyncs>>

\* The body is not JSON, or carries no code
MalformedBranch ==
  /\ saveStatus' = "error"
  /\ lastSaveError' = "Resposta invalida"
  /\ pendingWsSave' = FALSE /\ pendingWsSavedJson' = EmptyJson /\ wsDirtyWhileSaving' = FALSE
  /\ UNCHANGED <<instrumentoVersion, conflictRetry, lastConflict, retryTimers, resyncs>>

RecvError ==
  /\ errorsQ # <<>>
  /\ LET err == Head(errorsQ)
     IN /\ errorsQ' = Tail(errorsQ)
        /\ IF IsMalformed(err)
           THEN MalformedBranch
           ELSE IF IsForOther(err)
           THEN UNCHANGED <<saveStatus, lastSaveError, wsSaveVars, instrumentoVersion, conflictRetry, lastConflict, retryTimers, resyncs>>
           ELSE /\ pendingWsSave' = FALSE /\ pendingWsSavedJson' = EmptyJson /\ wsDirtyWhileSaving' = FALSE
                /\ IF IsVersionConflict(err)
                   THEN VersionConflictBranch(err)
                   ELSE /\ saveStatus' = "error"
                        /\ lastSaveError' = err.code
                        /\ UNCHANGED <<instrumentoVersion, conflictRetry, lastConflict, retryTimers, resyncs>>
  /\ UNCHANGED <<storeVars, toStore, updatesQ, saves, loadVars, shouldUsePost, wsConnected, slides,
                 lastSavedSlidesJson, dirtySinceLastPersist, suppressLeft, saveTimer, idleTimer, histVars, acts,
                 userVars>>

\* ------------------------------------------------------------------------
\* Full resync: the fetch issued by the errors handler and its continuation
\* ------------------------------------------------------------------------
ServeResync ==
  /\ resyncs # <<>>
  /\ Head(resyncs).stage = "req"
  /\ \/ /\ resyncs' = <<[stage |-> "ok", slides |-> Stringify(storeSlides), version |-> storeVersion]>> \o Tail(resyncs)
        /\ UNCHANGED acts
     \/ /\ acts < MaxActs
        /\ acts' = acts + 1
        /\ resyncs' = <<[stage |-> "fail", slides |-> EmptyJson, version |-> NoVersion]>> \o Tail(resyncs)
  /\ UNCHANGED <<storeVars, toStore, updatesQ, errorsQ, saves, loadVars, shouldUsePost, wsConnected, slides,
                 instrumentoVersion, wsSaveVars, lastSavedSlidesJson, dirtySinceLastPersist, saveStatus, lastSaveError,
                 conflictRetry, lastConflict, suppressLeft, saveTimer, retryTimers, idleTimer, histVars,
                 userVars>>

\* (variant that marks the document dirty when the fetch fails)
ResyncFailureBranch_MarksDirty ==
  /\ dirtySinceLastPersist' = TRUE
  /\ UNCHANGED <<instrumentoVersion, slides, suppressLeft, lastSavedSlidesJson,
                 wsDirtyWhileSaving, pendingWsSave, saveTimer, histVars, loadVars, wsConnected>>

\* The response is not ok, or the fetch threw: nothing of the document changes
ResyncFailureBranch ==
  UNCHANGED <<instrumentoVersion, slides, suppressLeft, lastSavedSlidesJson, dirtySinceLastPersist,
              wsDirtyWhileSaving, pendingWsSave, saveTimer, histVars, loadVars, wsConnected>>

ResyncDone ==
  /\ resyncs # <<>>
  /\ Head(resyncs).stage # "req"
  /\ resyncs' = Tail(resyncs)
  /\ LET res == Head(resyncs)
     IN IF res.stage = "ok"
        THEN /\ instrumentoVersion' = res.version
             /\ slides' = Parse(res.slides)
             /\ suppressLeft' = Max(suppressLeft, SuppressWindowMs)
             /\ lastSavedSlidesJson' = Stringify(slides')
             /\ UNCHANGED <<loadVars, wsConnected, pendingWsSave>>
             /\ \E remote \in ApplyingRemoteSeen :
                   /\ HistoryEffect(remote, FALSE)
                   /\ DirtyEffect(remote, FALSE, wsDirtyWhileSaving)
                   /\ AutosaveEffect(remote)
        ELSE ResyncFailureBranch
  /\ lastSaveError' \in (IF Head(resyncs).stage = "ok" THEN {lastSaveError}
                         ELSE {lastSaveError, "Falha ao ressincronizar"})
  /\ UNCHANGED <<storeVars, toStore, updatesQ, errorsQ, saves, shouldUsePost, pendingWsSavedJson, saveStatus,
                 conflictRetry, lastConflict, retryTimers, idleTimer, acts, userVars>>

\* ------------------------------------------------------------------------
\* Fallback request/response channel (createInstrumento / saveInstrumento)
\* ------------------------------------------------------------------------
ServeSave ==
  /\ saves # <<>>
  /\ Head(saves).stage = "req"
  /\ \/ /\ storeSlides' = Parse(Head(saves).json)
        /\ storeVersion' = storeVersion + 1
        /\ saves' = <<[Head(saves) EXCEPT !.stage = "ok", !.version = storeVersion']>> \o Tail(saves)
        /\ UNCHANGED acts
     \/ /\ acts < MaxActs
        /\ acts' = acts + 1
        /\ saves' = <<[Head(saves) EXCEPT !.stage = "fail"]>> \o Tail(saves)
        /\ UNCHANGED <<storeSlides, storeVersion>>
  /\ UNCHANGED <<conflictFormat, toStore, updatesQ, errorsQ, resyncs, loadVars, shouldUsePost, wsConnected,
                 slides, instrumentoVersion, wsSaveVars, lastSavedSlidesJson, dirtySinceLastPersist, saveStatus, lastSaveError,
                 conflictRetry, lastConflict, suppressLeft, saveTimer, retryTimers, idleTimer, histVars,
                 userVars>>

\* (variant that clears the dirty flag whatever the outcome)
DirtyAfterSave_AlwaysCleared(ok, dirty) == FALSE

\* The dirty flag after the response of a fallback request
DirtyAfterSave(ok, dirty) == IF ok THEN FALSE ELSE dirty

\* Continuation of the autosave timer callback / handleManualSave after the await
SaveDone ==
  /\ saves # <<>>
  /\ Head(saves).stage # "req"
  /\ saves' = Tail(saves)
  /\ savedByFallback' = (savedByFallback \/ Head(saves).stage = "ok")
  /\ dirtySinceLastPersist' = DirtyAfterSave(Head(saves).stage = "ok", dirtySinceLastPersist)
  /\ LET res == Head(saves)
     IN IF res.stage = "ok"
        THEN /\ instrumentoVersion' = res.version
             /\ lastSavedSlidesJson' = res.json
             /\ shouldUsePost' = FALSE
             /\ saveStatus' = "saved"
             /\ idleTimer' = TRUE
             /\ UNCHANGED lastSaveError
             /\ UNCHANGED <<loadVars, wsConnected, pendingWsSave, slides, suppressLeft>>
             /\ IF shouldUsePost THEN AutosaveEffect(FALSE) ELSE UNCHANGED saveTimer
        ELSE /\ saveStatus' = "error"
             /\ lastSaveError' = "HTTP"
             /\ UNCHANGED <<instrumentoVersion, lastSavedSlidesJson, shouldUsePost, idleTimer,
                 saveTimer, loadVars, wsConnected, pendingWsSave, slides, suppressLeft>>
  /\ UNCHANGED <<storeVars, toStore, updatesQ, errorsQ, resyncs, wsDirtyWhileSaving, pendingWsSavedJson,
                 conflictRetry, lastConflict, retryTimers, histVars, acts,
                 userPc, bursts, undone, startJson, finalJson, deleteLog>>

\* ------------------------------------------------------------------------
\* Local history: the 350 ms debounce timer and the undo/redo keys
\* ------------------------------------------------------------------------
HistoryCommit ==
  /\ historyDebounceTimer
  /\ LET f == flushPendingHistoryCommit(historyPendingFromJson, getSlidesJson(slides), undoStack, redoStack)
     IN /\ historyDebounceTimer' = FALSE
        /\ historyPendingFromJson' = EmptyJson
        /\ undoStack' = f.undo /\ redoStack' = f.redo /\ historyBaselineJson' = f.baseline
  /\ UNCHANGED <<storeVars, netVars, loadVars, shouldUsePost, wsConnected, slides, instrumentoVersion,
                 wsSaveVars, lastSavedSlidesJson, dirtySinceLastPersist, saveStatus, lastSaveError, conflictRetry, lastConflict,
                 suppressLeft, saveTimer, retryTimers, idleTimer, historyInitialized, acts>>

HistoryTimerFire == HistoryCommit /\ UNCHANGED userVars

Last(q) == q[Len(q)]

Front(q) == SubSeq(q, 1, Len(q) - 1)

\* The keydown handler for undo (redoing = FALSE) and redo (redoing = TRUE)
HistoryKey(redoing) ==
  /\ EditorShown
  /\ historyInitialized
  /\ LET f == flushPendingHistoryCommit(historyPendingFromJson, getSlidesJson(slides), undoStack, redoStack)
         currentJson == IF Truthy(f.baseline) THEN f.baseline ELSE getSlidesJson(slides)
         from == IF redoing THEN f.redo ELSE f.undo
         onto == IF redoing THEN f.undo ELSE f.redo
     IN /\ historyDebounceTimer' = FALSE
        /\ historyPendingFromJson' = EmptyJson
        /\ UNCHANGED historyInitialized
        /\ IF from = <<>>
           THEN /\ undoStack' = f.undo /\ redoStack' = f.redo /\ historyBaselineJson' = f.baseline
                /\ UNCHANGED <<slides, dirtySinceLastPersist, wsDirtyWhileSaving, saveTimer>>
           ELSE /\ undoStack' = (IF redoing THEN Append(onto, currentJson) ELSE Front(from))
                /\ redoStack' = (IF redoing THEN Front(from) ELSE Append(onto, currentJson))
                /\ historyBaselineJson' = Last(from)
                /\ slides' = Parse(Last(from))
                /\ UNCHANGED <<loadVars, wsConnected, pendingWsSave, suppressLeft, lastSavedSlidesJson>>
                /\ DirtyEffect(FALSE, dirtySinceLastPersist, wsDirtyWhileSaving)
                /\ AutosaveEffect(FALSE)
  /\ UNCHANGED <<storeVars, netVars, loadVars, shouldUsePost, wsConnected, instrumentoVersion, pendingWsSave,
                 pendingWsSavedJson, lastSavedSlidesJson, saveStatus, lastSaveError, conflictRetry, lastConflict, suppressLeft,
                 retryTimers, idleTimer>>

UndoKey ==
  /\ userPc = "free"
  /\ acts < MaxActs
  /\ acts' = acts + 1
  /\ HistoryKey(FALSE)
  /\ UNCHANGED userVars

RedoKey ==
  /\ userPc = "free"
  /\ acts < MaxActs
  /\ acts' = acts + 1
  /\ HistoryKey(TRUE)
  /\ UNCHANGED userVars

\* ------------------------------------------------------------------------
\* Time
\* ------------------------------------------------------------------------
Min(a, b) == IF a <= b THEN a ELSE b

Tick ==
  /\ conflictRetry' = [conflictRetry EXCEPT !.since = Min(@ + TickMs, ConflictRetryWindowMs)]
  /\ lastConflict' = [lastConflict EXCEPT !.since = Min(@ + TickMs, ConflictRetryWindowMs)]
  /\ suppressLeft' = Max(suppressLeft - TickMs, 0)
  /\ <<conflictRetry', lastConflict', suppressLeft'>> # <<conflictRetry, lastConflict, suppressLeft>>
  /\ UNCHANGED <<storeVars, netVars, loadVars, shouldUsePost, wsConnected, slides, instrumentoVersion,
                 wsSaveVars, lastSavedSlidesJson, dirtySinceLastPersist, saveStatus, lastSaveError, saveTimer, retryTimers,
                 idleTimer, histVars, acts, userVars>>

\* A 1200 ms timer sets the save status back to idle; more of them may be armed
IdleFire ==
  /\ idleTimer
  /\ saveStatus' = "idle"
  /\ idleTimer' \in BOOLEAN
  /\ UNCHANGED <<lastSaveError, storeVars, netVars, loadVars, shouldUsePost, wsConnected, slides, instrumentoVersion,
                 wsSaveVars, lastSavedSlidesJson, dirtySinceLastPersist, conflictRetry, lastConflict,
                 suppressLeft, saveTimer, retryTimers, histVars, acts, userVars>>

\* ------------------------------------------------------------------------
\* The editor with its store and collaborators
\* ------------------------------------------------------------------------
NextSync ==
  \/ LoadOk \/ LoadFail
  \/ ConnectWs \/ onWebSocketClose
  \/ LocalEdit
  \/ AutosaveFire \/ handleManualSave \/ RetryFire
  \/ StoreUpdate \/ StoreReject \/ ForeignWrite \/ ForeignConflict
  \/ RecvUpdate \/ RecvError
  \/ ServeResync \/ ResyncDone
  \/ ServeSave \/ SaveDone
  \/ Tick

SpecSync == InitSync /\ [][NextSync]_vars

\* The editor after the load and the connection, the suppression window of
\* the load expired, when other collaborators have written k times: the
\* first `missed` of these writes before this client subscribed, the
\* broadcasts of the others still on their way.
InitRetry(format, k, missed) ==
  /\ storeSlides = <<MkSlide(1, "c")>> /\ storeVersion = 1 + k /\ conflictFormat = format
  /\ toStore = <<>> /\ errorsQ = <<>> /\ resyncs = <<>> /\ saves = <<>>
  /\ updatesQ = [i \in 1..(k - missed) |-> Broadcast(<<MkSlide(1, "c")>>, 1 + missed + i, Other)]
  /\ loading = FALSE /\ loadedFromApi = TRUE /\ canSaveToApi = TRUE
  /\ shouldUsePost = TRUE /\ wsConnected = TRUE
  /\ slides = LoadedDoc /\ instrumentoVersion = 1
  /\ pendingWsSave = FALSE /\ wsDirtyWhileSaving = FALSE /\ pendingWsSavedJson = EmptyJson
  /\ lastSavedSlidesJson = Stringify(LoadedDoc) /\ dirtySinceLastPersist = FALSE
  /\ saveStatus = "idle" /\ lastSaveError = ""
  /\ conflictRetry = [since |-> ConflictRetryWindowMs, lastActual |-> NoVersion]
  /\ lastConflict = [since |-> ConflictRetryWindowMs, actual |-> NoVersion, admitted |-> FALSE, retried |-> FALSE]
  /\ suppressLeft = 0
  /\ saveTimer = FALSE /\ retryTimers = 0 /\ idleTimer = FALSE
  /\ historyInitialized = TRUE /\ historyBaselineJson = Stringify(LoadedDoc)
  /\ undoStack = <<>> /\ redoStack = <<>>
  /\ historyPendingFromJson = EmptyJson /\ historyDebounceTimer = FALSE
  /\ acts = 0 /\ userPc = "free" /\ bursts = 0 /\ undone = 0 /\ startJson = EmptyJson /\ finalJson = EmptyJson
  /\ deleteLog = <<>> /\ savedByFallback = FALSE

\* The loaded editor of an installation without the push channel
InitOffline ==
  /\ storeSlides = LoadedDoc /\ storeVersion = 1 /\ conflictFormat = "numbers"
  /\ toStore = <<>> /\ updatesQ = <<>> /\ errorsQ = <<>> /\ resyncs = <<>> /\ saves = <<>>
  /\ loading = FALSE /\ loadedFromApi = TRUE /\ canSaveToApi = TRUE
  /\ shouldUsePost = TRUE /\ wsConnected = FALSE
  /\ slides = LoadedDoc /\ instrumentoVersion = 1
  /\ pendingWsSave = FALSE /\ wsDirtyWhileSaving = FALSE /\ pendingWsSavedJson = EmptyJson
  /\ lastSavedSlidesJson = Stringify(LoadedDoc) /\ dirtySinceLastPersist = FALSE
  /\ saveStatus = "idle" /\ lastSaveError = ""
  /\ conflictRetry = [since |-> ConflictRetryWindowMs, lastActual |-> NoVersion]
  /\ lastConflict = [since |-> ConflictRetryWindowMs, actual |-> NoVersion, admitted |-> FALSE, retried |-> FALSE]
  /\ suppressLeft = 0
  /\ saveTimer = FALSE /\ retryTimers = 0 /\ idleTimer = FALSE
  /\ historyInitialized = TRUE /\ historyBaselineJson = Stringify(LoadedDoc)
  /\ undoStack = <<>> /\ redoStack = <<>>
  /\ historyPendingFromJson = EmptyJson /\ historyDebounceTimer = FALSE
  /\ acts = 0 /\ userPc = "free" /\ bursts = 0 /\ undone = 0 /\ startJson = EmptyJson /\ finalJson = EmptyJson
  /\ deleteLog = <<>> /\ savedByFallback = FALSE

InitConflicts == \E k \in 1..MaxForeign, missed \in 0..1 : InitRetry("numbers", k, missed)

InitAnyMessage == \E format \in ConflictFormats, missed \in 0..1 : InitRetry(format, 1, missed)

\* The steps of one connected client once the other collaborators are quiet
NextRetry ==
  \/ LocalEdit
  \/ AutosaveFire
  \/ handleManualSave
  \/ RetryFire
  \/ StoreUpdate
  \/ RecvUpdate
  \/ RecvError
  \/ ServeResync
  \/ ResyncDone
  \/ Tick

SpecRetry == InitConflicts /\ [][NextRetry]_vars

\* One write of another collaborator, its broadcast on its way or missed
InitOneForeign == \E missed \in 0..1 : InitRetry("numbers", 1, missed)

\* The client with its local history: edits, the debounce timer and the
\* keys, manual saves, broadcasts, conflicts and the resync
NextHistory ==
  \/ LocalEdit
  \/ HistoryTimerFire
  \/ UndoKey
  \/ RedoKey
  \/ handleManualSave
  \/ StoreUpdate
  \/ RecvUpdate
  \/ RecvError
  \/ ServeResync
  \/ ResyncDone
  \/ Tick

SpecHistory == InitOneForeign /\ [][NextHistory]_vars

\* Timers fire, the store answers, messages and responses are delivered
FairRetry ==
  /\ WF_vars(AutosaveFire) /\ WF_vars(RetryFire) /\ WF_vars(StoreUpdate)
  /\ WF_vars(RecvUpdate) /\ WF_vars(RecvError) /\ WF_vars(ServeResync) /\ WF_vars(ResyncDone)

SpecRetryFair == InitAnyMessage /\ [][NextRetry]_vars /\ FairRetry

\* ------------------------------------------------------------------------
\* A user who edits in N coalesced bursts, then presses undo N times and
\* redo N times, in an editor without the push channel; startJson and
\* finalJson are the user's record of the serialization before the first
\* burst and after the last one.
\* ------------------------------------------------------------------------
BurstBodies(k) == IF k <= MaxNaNBursts THEN {"a", "NaN"} ELSE {"a"}

\* The first mutation of a burst
BurstStart ==
  /\ userPc = "free"
  /\ bursts < MaxBursts
  /\ ApplyLocal(<<MkSlide(bursts + 2, "draft")>>)
  /\ userPc' = "typing"
  /\ startJson' = (IF bursts = 0 THEN getSlidesJson(slides) ELSE startJson)
  /\ UNCHANGED <<bursts, undone, finalJson, acts, deleteLog, savedByFallback>>

\* A further mutation inside the debounce window of the same burst
BurstEnd ==
  /\ userPc = "typing"
  /\ \E b \in BurstBodies(bursts + 1) : ApplyLocal(<<MkSlide(bursts + 2, b)>>)
  /\ userPc' = "typed"
  /\ UNCHANGED <<bursts, undone, startJson, finalJson, acts, deleteLog, savedByFallback>>

\* The debounce timer commits the burst
BurstCommit ==
  /\ userPc = "typed"
  /\ HistoryCommit
  /\ userPc' = "free"
  /\ bursts' = bursts + 1
  /\ UNCHANGED <<undone, startJson, finalJson, deleteLog, savedByFallback>>

\* Undo is pressed: the first time after a burst (committed by the timer, or
\* still pending and committed by the key handler), then up to N times
UndoStep ==
  /\ \/ /\ userPc = "free" /\ bursts > 0
        /\ userPc' = "undoing" /\ undone' = 1 /\ finalJson' = getSlidesJson(slides)
        /\ UNCHANGED <<bursts, startJson>>
     \/ /\ userPc = "typed"
        /\ userPc' = "undoing" /\ undone' = 1 /\ finalJson' = getSlidesJson(slides)
        /\ bursts' = bursts + 1
        /\ UNCHANGED startJson
     \/ /\ userPc = "undoing" /\ undone < bursts
        /\ undone' = undone + 1
        /\ UNCHANGED <<userPc, bursts, startJson, finalJson>>
  /\ HistoryKey(FALSE)
  /\ UNCHANGED <<acts, deleteLog, savedByFallback>>

\* Redo is pressed N times after the N undos
RedoStep ==
  /\ \/ userPc = "undoing" /\ undone = bursts
     \/ userPc = "redoing" /\ undone > 0
  /\ userPc' = "redoing"
  /\ undone' = undone - 1
  /\ UNCHANGED <<bursts, startJson, finalJson>>
  /\ HistoryKey(TRUE)
  /\ UNCHANGED <<acts, deleteLog, savedByFallback>>

NextRoundTrip == BurstStart \/ BurstEnd \/ BurstCommit \/ UndoStep \/ RedoStep

SpecRoundTrip == InitOffline /\ [][NextRoundTrip]_vars

\* ------------------------------------------------------------------------
\* Properties of the push-channel synchronizer (checked under SpecSync)
\* ------------------------------------------------------------------------
IsMine(m) == m.clientId = Me

\* An error reply that answers an update command of this client
AnswersMe(err) == err.kind = "nonjson" \/ err.code = "" \/ err.clientId = Me

\* Update commands of this client that are still travelling, or whose
\* acknowledgment or error reply is still to be processed
InFlightOwn ==
  Cardinality({i \in 1..Len(toStore) : IsMine(toStore[i])})
  + Cardinality({i \in 1..Len(updatesQ) : IsMine(updatesQ[i])})
  + Cardinality({i \in 1..Len(errorsQ) : AnswersMe(errorsQ[i])})

SaveRequested == AutosaveFire \/ handleManualSave \/ RetryFire

C3_EchoKeepsSlides ==
  [][(RecvUpdate /\ Head(updatesQ).clientId = Me)
     => (slides' = slides /\ histVars' = histVars /\ suppressLeft' = suppressLeft)]_vars

\* An own echo has been processed after the local slides had moved on
C3_Witness ==
  /\ Truthy(lastSavedSlidesJson) /\ lastSavedSlidesJson # Stringify(slides)
  /\ lastSavedSlidesJson = Stringify(storeSlides)
  /\ instrumentoVersion = 2 /\ storeVersion = 2 /\ slides[1].body # "c" /\ storeSlides[1].body # "c"
  /\ shouldUsePost /\ wsConnected /\ saveStatus = "saved" /\ updatesQ = <<>> /\ toStore = <<>>

\* C4: processing a broadcast of any other client replaces the slides with the
\* broadcast's slides, adopts its version and clears the dirty flag.
C4_ForeignReplaces ==
  [][(RecvUpdate /\ Head(updatesQ).clientId # Me)
     => /\ Stringify(slides') = Head(updatesQ).slides
        /\ instrumentoVersion' = Head(updatesQ).version
        /\ ~dirtySinceLastPersist']_vars

\* A foreign broadcast has replaced a dirty document while a publish was in flight
C4_Witness ==
  /\ slides[1].body = "c" /\ ~dirtySinceLastPersist /\ pendingWsSave
  /\ Truthy(pendingWsSavedJson) /\ pendingWsSavedJson # Stringify(slides)
  /\ pendingWsSavedJson # Stringify(LoadedDoc)
  /\ instrumentoVersion = storeVersion /\ lastSavedSlidesJson = Stringify(slides)

WellFormedForMe(err) == err.kind = "json" /\ err.code # "" /\ (err.clientId = "" \/ err.clientId = Me)

\* C9: an error reply for this client with a code other than VERSION_CONFLICT
\* sets the save status to error and triggers no publish, no retry and no resync.
C9_OtherErrorTerminal ==
  [][(RecvError /\ WellFormedForMe(Head(errorsQ)) /\ Head(errorsQ).code # "VERSION_CONFLICT")
     => /\ saveStatus' = "error"
        /\ toStore' = toStore /\ retryTimers' = retryTimers /\ resyncs' = resyncs
        /\ saves' = saves /\ saveTimer' = saveTimer]_vars

\* An error other than a conflict has ended a save attempt of a dirty document
C9_Witness ==
  /\ saveStatus = "error" /\ lastSaveError = "FORBIDDEN" /\ dirtySinceLastPersist /\ ~pendingWsSave
  /\ toStore = <<>> /\ errorsQ = <<>> /\ retryTimers = 0 /\ resyncs = <<>> /\ saves = <<>>
  /\ wsConnected /\ lastConflict.actual = NoVersion /\ storeVersion = 1

\* ------------------------------------------------------------------------
\* Flush after the flight
\* ------------------------------------------------------------------------
\* The update command of this client in flight is resolved by this step
ResolvedByAck == pendingWsSave /\ RecvUpdate /\ Head(updatesQ).clientId = Me

ResolvedByError == pendingWsSave /\ RecvError /\ AnswersMe(Head(errorsQ))

\* A local mutation was marked while the update command was in flight
MarkedInFlight == wsDirtyWhileSaving /\ dirtySinceLastPersist /\ pendingWsSavedJson # Stringify(slides)

\* One more update command is sent, carrying the slides as they are now
FlushSent ==
  /\ Len(toStore') = Len(toStore) + 1
  /\ toStore'[Len(toStore')].slides = Stringify(slides)
  /\ toStore'[Len(toStore')].clientId = Me
  /\ slides' = slides

\* C2 (as stated): when the slides were mutated during the flight, the
\* resolution of the flight, by acknowledgment or by error, sends exactly one
\* more update command carrying the slides at that time.
C2_FlushAfterResolution ==
  [][((ResolvedByAck \/ ResolvedByError) /\ MarkedInFlight) => FlushSent]_vars

\* C2 (amended): a flight resolved by its acknowledgment sends exactly one
\* more update command carrying the slides at that time when the flush mark is
\* set; a flight resolved by an error reply clears the mark and sends nothing.
C2_FlushAfterAck ==
  /\ [][(ResolvedByAck /\ wsDirtyWhileSaving)
         => (FlushSent /\ pendingWsSave' /\ ~wsDirtyWhileSaving'
             /\ toStore'[Len(toStore')].expectedVersion = Head(updatesQ).version)]_vars
  /\ [][ResolvedByError => (toStore' = toStore /\ ~wsDirtyWhileSaving' /\ ~pendingWsSave')]_vars

\* The acknowledgment of the first publish has flushed the edit made during its flight
C2_Witness ==
  /\ pendingWsSave /\ ~wsDirtyWhileSaving /\ Len(toStore) = 1 /\ toStore[1].expectedVersion = 2
  /\ storeVersion = 2 /\ toStore[1].slides = Stringify(slides) /\ toStore[1].slides # lastSavedSlidesJson
  /\ lastSavedSlidesJson = Stringify(storeSlides) /\ storeSlides[1].body # "c"
  /\ shouldUsePost /\ saveStatus = "saving" /\ ~dirtySinceLastPersist
  /\ suppressLeft = 0 /\ acts = 2

\* ------------------------------------------------------------------------
\* Version conflicts (checked under SpecRetry)
\* ------------------------------------------------------------------------
ConflictForMe == RecvError /\ WellFormedForMe(Head(errorsQ)) /\ Head(errorsQ).code = "VERSION_CONFLICT"

\* The actual version written in the conflict message at the head of the queue
ReportedActual == parseVersionConflictMessage(Head(errorsQ).message).actual

RetrySent == RetryFire /\ Len(toStore') = Len(toStore) + 1

\* C5 (as stated): the update command sent by a retry expects the actual
\* version reported by the conflict.
C5_RetryCarriesActual ==
  [][RetrySent => toStore'[Len(toStore')].expectedVersion = lastConflict.actual]_vars

\* C5 (amended): a conflict adopts the reported actual version at once, and
\* the update command sent by the retry 150 ms later expects the version held
\* when the timer fires, with the slides of that time.
C5_RetryCarriesHeldVersion ==
  /\ [][(ConflictForMe /\ ReportedActual # NoVersion) => instrumentoVersion' = ReportedActual]_vars
  /\ [][RetrySent => /\ toStore'[Len(toStore')].expectedVersion = instrumentoVersion
                      /\ toStore'[Len(toStore')].slides = Stringify(slides)
                      /\ toStore'[Len(toStore')].eventType = "INTERNAL_RETRY"]_vars

\* A retry is on its way to the store with the actual version of the conflict
C5_Witness ==
  /\ Len(toStore) = 1 /\ toStore[1].eventType = "INTERNAL_RETRY"
  /\ toStore[1].expectedVersion = lastConflict.actual /\ lastConflict.retried
  /\ toStore[1].expectedVersion = storeVersion /\ dirtySinceLastPersist

\* C6 (as stated): a conflict reporting the same actual version as the
\* conflict before it, less than 1.5 s after it, arms no retry.
C6_SecondConflictNoRetry ==
  [][(ConflictForMe /\ ReportedActual # NoVersion /\ ReportedActual = lastConflict.actual
      /\ lastConflict.since < ConflictRetryWindowMs)
     => retryTimers' = retryTimers]_vars

\* C6 (amended): a conflict reporting the same actual version as the conflict
\* before it, less than 1.5 s after it, arms no retry when the conflict before
\* it was admitted by the rate limit.
C6_SecondConflictAfterAdmitted ==
  [][(ConflictForMe /\ ReportedActual # NoVersion /\ ReportedActual = lastConflict.actual
      /\ lastConflict.since < ConflictRetryWindowMs /\ lastConflict.admitted)
     => (retryTimers' = retryTimers /\ resyncs' = Append(resyncs, ResyncRequest))]_vars

\* A dirty document met the second conflict on the same version inside the window
C6_Witness ==
  /\ lastConflict.since = 0 /\ ~lastConflict.admitted /\ ~lastConflict.retried
  /\ conflictRetry.lastActual = lastConflict.actual
  /\ 0 < conflictRetry.since /\ conflictRetry.since < ConflictRetryWindowMs
  /\ dirtySinceLastPersist /\ resyncs # <<>> /\ retryTimers = 0

\* C7: whatever the conflict message says, the client stops re-publishing:
\* from some point on no update command, error reply or retry is pending.
C7_RetryQuiesces == <>[](toStore = <<>> /\ errorsQ = <<>> /\ retryTimers = 0)

\* C8: a conflict that arms no retry (the document is clean, or the same
\* actual version was admitted less than 1.5 s ago) requests the full
\* document; the served response is the store's snapshot, and applying it
\* replaces the slides, adopts the version and clears the dirty flag.
C8_ConflictWithoutRetryResyncs ==
  /\ [][(ConflictForMe /\ (~dirtySinceLastPersist
                              \/ (ReportedActual # NoVersion /\ ReportedActual = conflictRetry.lastActual
                                   /\ conflictRetry.since < ConflictRetryWindowMs)))
         => (resyncs' = Append(resyncs, ResyncRequest) /\ retryTimers' = retryTimers
             /\ toStore' = toStore)]_vars
  /\ [][(ServeResync /\ Head(resyncs').stage = "ok")
         => (Head(resyncs').slides = Stringify(storeSlides) /\ Head(resyncs').version = storeVersion)]_vars
  /\ [][(ResyncDone /\ Head(resyncs).stage = "ok")
         => /\ Stringify(slides') = Head(resyncs).slides
            /\ instrumentoVersion' = Head(resyncs).version
            /\ ~dirtySinceLastPersist']_vars

\* The resync after a suppressed conflict has replaced an edited document
C8_Witness ==
  /\ lastSaveError = "VERSION_CONFLICT" /\ saveStatus = "error" /\ ~lastConflict.retried
  /\ ~lastConflict.admitted /\ lastConflict.since = 0
  /\ resyncs = <<>> /\ updatesQ = <<>> /\ errorsQ = <<>> /\ toStore = <<>>
  /\ ~dirtySinceLastPersist /\ slides = storeSlides /\ instrumentoVersion = storeVersion
  /\ suppressLeft = SuppressWindowMs /\ acts > 0

\* ------------------------------------------------------------------------
\* Local history (checked under SpecRoundTrip)
\* ------------------------------------------------------------------------
UndoneAll == userPc = "undoing" /\ undone = bursts

RedoneAll == userPc = "redoing" /\ undone = 0

\* C10 (as stated): for every N, after N committed bursts and N undos the
\* serialization of the slides equals the one before the first burst, and
\* after N redos it equals the one after the last burst.
C10_RoundTrip ==
  /\ UndoneAll => getSlidesJson(slides) = startJson
  /\ RedoneAll => getSlidesJson(slides) = finalJson

\* C10 (amended): the same for every N up to HISTORY_MAX, the number of steps
\* the undo stack keeps.
C10_RoundTripWithinHistory ==
  bursts <= HISTORY_MAX =>
    /\ UndoneAll => getSlidesJson(slides) = startJson
    /\ RedoneAll => getSlidesJson(slides) = finalJson

\* HISTORY_MAX bursts have been undone and redone
C10_Witness ==
  /\ RedoneAll /\ bursts = HISTORY_MAX /\ getSlidesJson(slides) = finalJson
  /\ finalJson # startJson /\ Len(undoStack) = HISTORY_MAX /\ redoStack = <<>>

\* ------------------------------------------------------------------------
\* Remote replacements and the local history (checked under SpecHistory)
\* ------------------------------------------------------------------------
ForeignApplied == RecvUpdate /\ Head(updatesQ).clientId # Me

ResyncApplied == ResyncDone /\ Head(resyncs).stage = "ok"

NothingToUndo ==
  /\ undoStack = <<>> /\ redoStack = <<>>
  /\ ~Truthy(historyPendingFromJson) /\ ~historyDebounceTimer

\* C11: a foreign broadcast or a resync that replaces the slides leaves both
\* stacks empty and no burst pending, and an undo pressed in that state does
\* not change the slides.
C11_RemoteClearsHistory ==
  /\ [][(ForeignApplied \/ ResyncApplied) => NothingToUndo']_vars
  /\ [][(UndoKey /\ NothingToUndo) => slides' = slides]_vars

\* ------------------------------------------------------------------------
\* The slide list: the "+" button and the delete button of a thumbnail
\* ------------------------------------------------------------------------
SlideIds(doc) == {doc[i].id : i \in 1..Len(doc)}

\* Date.now() at a click on "+": a millisecond later than every slide added
\* so far (the slide of a fresh document has id 1)
DateNow(doc) == 1 + Max(1, IF doc = <<>> THEN 1 ELSE CHOOSE m \in SlideIds(doc) : \A j \in SlideIds(doc) : j <= m)

BlankSlide(id) == MkSlide(id, "blank")

handleAddSlide ==
  /\ EditorShown
  /\ userPc = "free"
  /\ acts < MaxActs
  /\ Len(slides) < MaxSlides
  /\ acts' = acts + 1
  /\ ApplyLocal(Append(slides, BlankSlide(DateNow(slides))))
  /\ UNCHANGED userVars

\* slides.filter((s) => s.id !== slideId)
WithoutSlide(doc, slideId) == SelectSeq(doc, LAMBDA s : s.id # slideId)

\* (variant whose guard only rejects an empty list)
DeleteRejected_OnlyEmpty(doc) == Len(doc) < 1

DeleteRejected(doc) == Len(doc) <= 1

\* The delete button of the thumbnail of slide `slideId`
handleDeleteSlide ==
  /\ EditorShown
  /\ userPc = "free"
  /\ acts < MaxActs
  /\ acts' = acts + 1
  /\ \E slideId \in SlideIds(slides) :
        IF DeleteRejected(slides)
        THEN UNCHANGED <<storeVars, netVars, loadVars, shouldUsePost, wsConnected, slides, instrumentoVersion,
                         wsSaveVars, lastSavedSlidesJson, dirtySinceLastPersist, saveStatus, lastSaveError,
                         conflictRetry, lastConflict, suppressLeft, saveTimer, retryTimers, idleTimer, histVars>>
        ELSE ApplyLocal(WithoutSlide(slides, slideId))
  /\ deleteLog' = Append(deleteLog, [before |-> Len(slides), after |-> Len(slides')])
  /\ UNCHANGED <<userPc, bursts, undone, startJson, finalJson, savedByFallback>>

\* What the store may hold when the editor opens, and what another
\* collaborator may publish: the payload is any JSON array of slides
StoredDocs == {LoadedDoc, <<>>}

PublishedDocs == {<<MkSlide(1, "c")>>, <<>>}

InitSlides == \E doc \in StoredDocs : InitStore("numbers", doc)

\* Another collaborator's update, of any content, accepted and broadcast
ForeignPublish ==
  /\ acts < MaxActs
  /\ acts' = acts + 1
  /\ storeSlides' \in PublishedDocs
  /\ storeVersion' = storeVersion + 1
  /\ updatesQ' = Deliver(updatesQ, Broadcast(storeSlides', storeVersion', Other))
  /\ UNCHANGED <<conflictFormat, toStore, errorsQ, resyncs, saves, loadVars, shouldUsePost, wsConnected, slides,
                 instrumentoVersion, wsSaveVars, lastSavedSlidesJson, dirtySinceLastPersist, saveStatus, lastSaveError,
                 conflictRetry, lastConflict, suppressLeft, saveTimer, retryTimers, idleTimer, histVars,
                 userVars>>

\* The editor from its construction on: the load, the connection, the slide
\* list buttons, the history keys, manual saves, the collaborators' updates,
\* conflicts and the resync
NextSlides ==
  \/ LoadOk
  \/ ConnectWs
  \/ handleAddSlide
  \/ handleDeleteSlide
  \/ HistoryTimerFire
  \/ UndoKey
  \/ RedoKey
  \/ handleManualSave
  \/ StoreUpdate
  \/ ForeignPublish
  \/ RecvUpdate
  \/ RecvError
  \/ ServeResync
  \/ ResyncDone
  \/ Tick

SpecSlides == InitSlides /\ [][NextSlides]_vars

\* C12: a click on a delete button while the document has exactly one slide
\* leaves the slides as they are, and after every click on a delete button
\* the document has at least one slide.
C12_DeletionFloor ==
  /\ [][(handleDeleteSlide /\ Len(slides) = 1) => slides' = slides]_vars
  /\ [][handleDeleteSlide => Len(slides') >= 1]_vars

\* a delete was carried out on two slides and a later one rejected on one
C12_Witness ==
  /\ \E i \in DOMAIN deleteLog : deleteLog[i] = [before |-> 2, after |-> 1]
  /\ \E i \in DOMAIN deleteLog : deleteLog[i] = [before |-> 1, after |-> 1]
  /\ Len(slides) = 1

\* C13: in every reachable state the local document has at least one slide.
C13_AtLeastOneSlide == Len(slides) >= 1

\* ------------------------------------------------------------------------
\* Bursts of local mutations and the history debounce
\* ------------------------------------------------------------------------
TypedBodies == {"a", "b", "d"}

\* A local mutation less than 350 ms after the previous one (the debounce
\* timer, if armed, has not fired): the first one of a burst notes the
\* serialization it found, each one counts itself
BurstMutation ==
  /\ userPc \in {"free", "typing"}
  /\ acts < MaxTyped
  /\ acts' = acts + 1
  /\ \E b \in TypedBodies :
        /\ <<MkSlide(1, b)>> # slides
        /\ ApplyLocal(<<MkSlide(1, b)>>)
  /\ userPc' = "typing"
  /\ startJson' = (IF userPc = "free" THEN getSlidesJson(slides) ELSE startJson)
  /\ bursts' = (IF userPc = "free" THEN 1 ELSE bursts + 1)
  /\ UNCHANGED <<undone, finalJson, deleteLog, savedByFallback>>

\* 350 ms have passed since the last mutation that armed the timer
DebounceFire ==
  /\ userPc = "typing"
  /\ HistoryCommit
  /\ userPc' = "free"
  /\ UNCHANGED <<bursts, undone, startJson, finalJson, deleteLog, savedByFallback>>

NextBurst == BurstMutation \/ DebounceFire

SpecBurst == InitOffline /\ [][NextBurst]_vars

\* C14: no mutation of a burst adds an undo entry by itself, and when the
\* debounce fires the burst has added exactly one entry, the snapshot from
\* before its first mutation.
C14_BurstOneEntry ==
  /\ [][BurstMutation => undoStack' = undoStack]_vars
  /\ [][DebounceFire => undoStack' = Append(undoStack, startJson)]_vars

\* C14 (amended): as above, except that a burst which ends on the
\* serialization it started from adds no entry.
C14_BurstAtMostOneEntry ==
  /\ [][BurstMutation => undoStack' = undoStack]_vars
  /\ [][DebounceFire => undoStack' = (IF getSlidesJson(slides) = startJson
                                      THEN undoStack
                                      ELSE Append(undoStack, startJson))]_vars

\* a burst of three mutations has been committed as one entry
C14_Witness ==
  /\ userPc = "free"
  /\ bursts = 3
  /\ undoStack = <<startJson>>
  /\ getSlidesJson(slides) # startJson
  /\ ~historyDebounceTimer

\* ------------------------------------------------------------------------
\* The capacity of the undo stack
\* ------------------------------------------------------------------------
\* Late in a long session (the stack has been filled) the user goes on
\* editing after undos or redos
BurstResume ==
  /\ userPc \in {"undoing", "redoing"}
  /\ HISTORY_MAX <= bursts /\ bursts < MaxBursts
  /\ ApplyLocal(<<MkSlide(bursts + 2, "draft")>>)
  /\ userPc' = "typing"
  /\ UNCHANGED <<bursts, undone, startJson, finalJson, acts, deleteLog, savedByFallback>>

NextStack == BurstStart \/ BurstEnd \/ BurstCommit \/ UndoStep \/ RedoStep \/ BurstResume

SpecStack == InitOffline /\ [][NextStack]_vars

\* the pending burst started from a snapshot other than the current state
BurstDiffers == Truthy(historyPendingFromJson) /\ historyPendingFromJson # getSlidesJson(slides)

\* C15: the undo stack never holds more than HISTORY_MAX entries; a commit
\* of a burst whose before-snapshot differs from the current state empties
\* the redo stack and makes the current state the baseline, whether the
\* debounce timer commits it or the undo key does before it undoes (the
\* redo stack then holds the committed state alone).
C15_StackCapped ==
  /\ [](Len(undoStack) <= HISTORY_MAX)
  /\ [][(BurstCommit /\ BurstDiffers)
          => (redoStack' = <<>> /\ historyBaselineJson' = getSlidesJson(slides))]_vars
  /\ [][(UndoStep /\ BurstDiffers) => redoStack' = <<getSlidesJson(slides)>>]_vars

\* the stack is full after more than HISTORY_MAX commits, the last of which
\* found redo entries and dropped them
C15_Witness ==
  /\ Len(undoStack) = HISTORY_MAX
  /\ bursts > HISTORY_MAX
  /\ userPc = "free"
  /\ undone > 0
  /\ redoStack = <<>>

\* ------------------------------------------------------------------------
\* Dirty tracking
\* ------------------------------------------------------------------------
\* A handler of the user changes the slides
LocalMutation == (handleAddSlide \/ handleDeleteSlide \/ UndoKey \/ RedoKey) /\ slides' # slides

InSuppressWindow == 0 < suppressLeft

\* C16: a local mutation of the slides inside the suppression window opened
\* by a load, a foreign broadcast or a resync leaves the dirty flag as it is
\* (unset) and leaves no save scheduled.
C16_WindowSuppresses ==
  [][(LocalMutation /\ InSuppressWindow)
       => (~dirtySinceLastPersist' /\ dirtySinceLastPersist' = dirtySinceLastPersist /\ ~saveTimer')]_vars

\* a slide has been added inside the window: the document differs from the
\* last persisted one, and is neither dirty nor about to be saved
C16_Witness ==
  /\ InSuppressWindow
  /\ Len(slides) = 2 /\ slides[2] = BlankSlide(2)
  /\ getSlidesJson(slides) # lastSavedSlidesJson
  /\ ~dirtySinceLastPersist /\ ~saveTimer

\* C17: once the load has finished every local mutation of the slides sets
\* the dirty flag, and a foreign broadcast or a resync that replaces the
\* slides never sets it.
C17_LocalSetsDirty ==
  /\ [][LocalMutation => dirtySinceLastPersist']_vars
  /\ [][(ForeignApplied \/ ResyncApplied) => ~dirtySinceLastPersist']_vars

\* C17 (amended): as above for the local mutations made outside the
\* suppression window.
C17_LocalSetsDirtyOutsideWindow ==
  /\ [][(LocalMutation /\ ~InSuppressWindow) => dirtySinceLastPersist']_vars
  /\ [][(ForeignApplied \/ ResyncApplied) => ~dirtySinceLastPersist']_vars

\* a slide added after the window has made the document dirty, and no
\* publish is in flight
C17_Witness ==
  /\ ~InSuppressWindow
  /\ Len(slides) = 2 /\ slides[2] = BlankSlide(2)
  /\ dirtySinceLastPersist /\ saveTimer
  /\ ~pendingWsSave /\ toStore = <<>>

\* ------------------------------------------------------------------------
\* Autosave over the two channels
\* ------------------------------------------------------------------------
\* One client whose push channel comes and goes: edits and undo, the
\* autosave timer and the save button, the store's answers on both channels
NextSave ==
  \/ LocalEdit
  \/ UndoKey
  \/ AutosaveFire
  \/ handleManualSave
  \/ ServeSave
  \/ SaveDone
  \/ ConnectWs
  \/ onWebSocketClose
  \/ StoreUpdate
  \/ StoreReject
  \/ RecvUpdate
  \/ RecvError
  \/ IdleFire

SpecSave == InitOffline /\ [][NextSave]_vars

\* the document is dirty and nothing of this client is in flight
DirtyAndIdle ==
  /\ dirtySinceLastPersist
  /\ ~pendingWsSave
  /\ toStore = <<>> /\ updatesQ = <<>> /\ errorsQ = <<>> /\ saves = <<>> /\ resyncs = <<>>
  /\ retryTimers = 0

\* the kind of a fallback request: create until one has succeeded
FallbackKind == IF savedByFallback THEN "update" ELSE "create"

\* the autosave timer has sent exactly one save, on the channel in use
OneSaveSent ==
  IF wsConnected
  THEN /\ toStore' = Append(toStore, UpdateCommand(slides, instrumentoVersion, "SNAPSHOT_UPDATE"))
       /\ saves' = saves
  ELSE /\ saves' = Append(saves, [kind |-> FallbackKind, json |-> Stringify(slides), stage |-> "req",
                                  version |-> NoVersion])
       /\ toStore' = toStore

SaveSucceeded == SaveDone /\ Head(saves).stage = "ok"

SaveFailed == SaveDone /\ Head(saves).stage = "fail"

\* the last save of this client has failed on the fallback channel
FailureShown == lastSaveError = "HTTP"

\* C19: when a fallback request succeeds the version it returns is adopted
\* and the dirty flag is cleared; when it fails the save status becomes
\* error and the dirty flag is left as it is; after a failure the next
\* mutation arms the debounce timer, and the timer, when it fires, sends
\* a request with the current document.
C19_FallbackOutcome ==
  /\ [][SaveSucceeded => (instrumentoVersion' = Head(saves).version /\ ~dirtySinceLastPersist')]_vars
  /\ [][SaveFailed => (saveStatus' = "error" /\ dirtySinceLastPersist' = dirtySinceLastPersist)]_vars
  /\ [][(LocalEdit /\ FailureShown /\ ~wsConnected /\ ~InSuppressWindow
           /\ getSlidesJson(slides') # lastSavedSlidesJson) => saveTimer']_vars
  /\ [][(AutosaveFire /\ FailureShown /\ ~wsConnected)
          => saves' = Append(saves, [kind |-> FallbackKind, json |-> Stringify(slides), stage |-> "req",
                                     version |-> NoVersion])]_vars

\* after a failed request the document is still dirty, and an armed
\* debounce timer is about to send it again
C19_Witness ==
  /\ FailureShown
  /\ saveStatus = "error"
  /\ dirtySinceLastPersist
  /\ saveTimer
  /\ saves = <<>>
  /\ ~wsConnected
  /\ getSlidesJson(slides) # lastSavedSlidesJson

\* ------------------------------------------------------------------------
\* Malformed frames of the private error subscription
\* ------------------------------------------------------------------------
MalformedReceived == RecvError /\ IsMalformed(Head(errorsQ))

MalformedShown == lastSaveError = "Resposta invalida"

\* C20: a frame of the private error subscription that is not JSON or has no
\* code releases the in-flight flag and sets the save status to error, and
\* the next save requested over the connected push channel is published.
C20_MalformedReleases ==
  /\ [][MalformedReceived => (~pendingWsSave' /\ saveStatus' = "error")]_vars
  /\ [][((AutosaveFire \/ handleManualSave) /\ wsConnected /\ MalformedShown)
          => toStore' = Append(toStore, UpdateCommand(slides, instrumentoVersion, "SNAPSHOT_UPDATE"))]_vars

\* the store has answered this client's publish with a malformed frame: the
\* error is shown, nothing is in flight, and the document is still dirty
C20_Witness ==
  /\ MalformedShown
  /\ saveStatus = "error"
  /\ wsConnected
  /\ ~pendingWsSave /\ toStore = <<>> /\ errorsQ = <<>>
  /\ dirtySinceLastPersist
  /\ storeSlides # slides


\* ------------------------------------------------------------------------
\* Conflicts, resyncs and the save status
\* ------------------------------------------------------------------------
\* C21: a version conflict that arms the automatic retry does not set the
\* save status to error, and a resync that succeeds does not leave it at
\* error.
C21_ConflictNotHardError ==
  /\ [][(ConflictForMe /\ lastConflict'.retried) => saveStatus' # "error"]_vars
  /\ [][ResyncApplied => saveStatus' # "error"]_vars

\* the continuation of a resync whose fetch failed
ResyncFailed == ResyncDone /\ Head(resyncs).stage = "fail"

\* a conflict for this client that arms no retry starts the resync
ResyncStarted == ConflictForMe /\ ~lastConflict'.retried

ResyncFailureShown == lastSaveError = "Falha ao ressincronizar"

\* C22 as stated: after a failed resync fetch the slides are as they were, the
\* document is dirty, the save status is error and a save timer is armed.
C22_AsStated ==
  [][ResyncFailed => (/\ slides' = slides
                      /\ dirtySinceLastPersist'
                      /\ saveStatus' = "error"
                      /\ saveTimer')]_vars

\* C22 (amended): the conflict that starts the resync sets the save status to
\* error and queues the fetch; a fetch that fails leaves the slides, the held
\* version, the last saved snapshot, the dirty flag, the save status and the
\* timers exactly as they were; the next local edit outside the suppression
\* window marks the document dirty and arms the debounce timer when the
\* document differs from the last saved snapshot and nothing is in flight.
C22_ResyncFailureKeeps ==
  /\ [][ResyncStarted => (saveStatus' = "error" /\ Len(resyncs') = Len(resyncs) + 1)]_vars
  /\ [][ResyncFailed => UNCHANGED <<slides, instrumentoVersion, lastSavedSlidesJson, dirtySinceLastPersist,
                                     saveStatus, saveTimer, retryTimers, wsSaveVars>>]_vars
  /\ [][(LocalEdit /\ ResyncFailureShown /\ ~InSuppressWindow /\ ~pendingWsSave
           /\ getSlidesJson(slides') # lastSavedSlidesJson)
          => (dirtySinceLastPersist' /\ saveTimer')]_vars

\* a resync has failed on a clean, unedited document: it is still clean and
\* no timer is armed
C22_Witness ==
  /\ ResyncFailureShown
  /\ resyncs = <<>>
  /\ saveStatus = "error"
  /\ ~dirtySinceLastPersist
  /\ ~saveTimer
  /\ slides = LoadedDoc

\* ------------------------------------------------------------------------
\* Convergence of a client with the store
\* ------------------------------------------------------------------------
\* the client is loaded and connected, no message, request or response is
\* on its way and no timer of the synchronizer is armed
Settled ==
  /\ ~loading /\ loadedFromApi /\ wsConnected
  /\ toStore = <<>> /\ updatesQ = <<>> /\ errorsQ = <<>> /\ resyncs = <<>> /\ saves = <<>>
  /\ ~saveTimer /\ retryTimers = 0

Converged == slides = storeSlides /\ instrumentoVersion = storeVersion

\* C23: once every message has been delivered and processed and no save is
\* scheduled, the client's slides and held version are the store's.
C23_Convergence == Settled => Converged

\* ------------------------------------------------------------------------
\* An unreliable push channel: broadcasts lost or delivered twice, the
\* connection dropped and established again
\* ------------------------------------------------------------------------
\* A broadcast on its way to this client is lost
LoseUpdate ==
  /\ updatesQ # <<>>
  /\ acts < MaxActs
  /\ acts' = acts + 1
  /\ updatesQ' = Tail(updatesQ)
  /\ UNCHANGED <<storeVars, toStore, errorsQ, resyncs, saves, loadVars, shouldUsePost, wsConnected, slides,
                 instrumentoVersion, wsSaveVars, lastSavedSlidesJson, dirtySinceLastPersist, saveStatus, lastSaveError,
                 conflictRetry, lastConflict, suppressLeft, saveTimer, retryTimers, idleTimer, histVars,
                 userVars>>

\* A broadcast on its way to this client is going to be delivered twice
DuplicateUpdate ==
  /\ updatesQ # <<>>
  /\ acts < MaxActs
  /\ acts' = acts + 1
  /\ updatesQ' = <<Head(updatesQ)>> \o updatesQ
  /\ UNCHANGED <<storeVars, toStore, errorsQ, resyncs, saves, loadVars, shouldUsePost, wsConnected, slides,
                 instrumentoVersion, wsSaveVars, lastSavedSlidesJson, dirtySinceLastPersist, saveStatus, lastSaveError,
                 conflictRetry, lastConflict, suppressLeft, saveTimer, retryTimers, idleTimer, histVars,
                 userVars>>

NextLoss ==
  \/ LocalEdit
  \/ AutosaveFire
  \/ handleManualSave
  \/ RetryFire
  \/ ConnectWs
  \/ onWebSocketClose
  \/ StoreUpdate
  \/ LoseUpdate
  \/ DuplicateUpdate
  \/ RecvUpdate
  \/ RecvError
  \/ ServeResync
  \/ ResyncDone
  \/ ServeSave
  \/ SaveDone
  \/ Tick
  \/ IdleFire

SpecLoss == InitOffline /\ [][NextLoss]_vars

\* Timers fire, the store answers, what is delivered is processed, and the
\* STOMP client connects again (reconnectDelay) after a drop
FairLoss ==
  /\ WF_vars(AutosaveFire) /\ WF_vars(RetryFire) /\ WF_vars(ConnectWs)
  /\ WF_vars(StoreUpdate) /\ WF_vars(RecvUpdate) /\ WF_vars(RecvError)
  /\ WF_vars(ServeResync) /\ WF_vars(ResyncDone) /\ WF_vars(ServeSave) /\ WF_vars(SaveDone)

SpecLossFair == InitOffline /\ [][NextLoss]_vars /\ FairLoss

\* One connected client on a channel that loses and repeats broadcasts
NextAck ==
  \/ LocalEdit
  \/ AutosaveFire
  \/ handleManualSave
  \/ RetryFire
  \/ StoreUpdate
  \/ LoseUpdate
  \/ DuplicateUpdate
  \/ RecvUpdate
  \/ RecvError
  \/ ServeResync
  \/ ResyncDone
  \/ Tick

SpecAck == InitOneForeign /\ [][NextAck]_vars

SpecAckFair == InitOneForeign /\ [][NextAck]_vars /\ FairRetry

\* C24: the client is not left unable to save when the broadcast that
\* acknowledges a publish is lost or a broadcast is delivered twice: a
\* publish in flight is eventually resolved, so that what is edited later
\* can be sent.
C24_LossTolerated == pendingWsSave ~> ~pendingWsSave

\* while a publish is in flight on a connected channel, neither the timer
\* nor the save button sends anything
NothingSentInFlight ==
  [][(pendingWsSave /\ wsConnected /\ (LocalEdit \/ AutosaveFire \/ handleManualSave))
       => (toStore' = toStore /\ saves' = saves /\ (saveTimer' => saveTimer))]_vars

InFlightWhileDown == pendingWsSave /\ ~wsConnected

\* C27: a publish in flight when the connection drops does not stay in
\* flight for ever: the client is eventually connected with the in-flight
\* flag clear.
C27_DropDoesNotStall == InFlightWhileDown ~> (wsConnected /\ ~pendingWsSave)

\* ------------------------------------------------------------------------
\* A load that failed
\* ------------------------------------------------------------------------
LoadFailed == ~loading /\ ~loadedFromApi

\* C25: once the initial load has failed, no update command and no
\* create/update request is ever sent, no save timer is armed, and the push
\* channel is never connected.
C25_NoSaveAfterFailedLoad ==
  /\ [](LoadFailed => (/\ ~canSaveToApi /\ ~wsConnected /\ ~saveTimer /\ retryTimers = 0
                        /\ toStore = <<>> /\ saves = <<>> /\ ~pendingWsSave))
  /\ [][LoadFailed => (LoadFailed' /\ toStore' = toStore /\ saves' = saves /\ ~wsConnected')]_vars

\* the load has failed and another collaborator has written since
C25_Witness == LoadFailed /\ storeVersion > 1 /\ instrumentoVersion = NoVersion

\* ------------------------------------------------------------------------
\* Error replies addressed to other sessions of the account
\* ------------------------------------------------------------------------
\* Another session of the same account is sent an error reply without a
\* code: it reaches this client's private queue too
ForeignFault ==
  /\ wsConnected
  /\ acts < MaxActs
  /\ acts' = acts + 1
  /\ errorsQ' = Append(errorsQ, ErrorReply("", <<>>, Other))
  /\ UNCHANGED <<storeVars, toStore, updatesQ, resyncs, saves, loadVars, shouldUsePost, wsConnected, slides,
                 instrumentoVersion, wsSaveVars, lastSavedSlidesJson, dirtySinceLastPersist, saveStatus, lastSaveError,
                 conflictRetry, lastConflict, suppressLeft, saveTimer, retryTimers, idleTimer, histVars,
                 userVars>>

\* One connected client and the replies of the private queue
NextErrors ==
  \/ LocalEdit
  \/ AutosaveFire
  \/ handleManualSave
  \/ RetryFire
  \/ StoreUpdate
  \/ StoreReject
  \/ ForeignConflict
  \/ ForeignFault
  \/ RecvUpdate
  \/ RecvError
  \/ ServeResync
  \/ ResyncDone
  \/ Tick

SpecErrors == InitOneForeign /\ [][NextErrors]_vars

\* the reply being processed carries the id of another client
ForOtherReceived == RecvError /\ Head(errorsQ).clientId # "" /\ Head(errorsQ).clientId # Me

Quiescent ==
  /\ ~loading /\ loadedFromApi
  /\ ~dirtySinceLastPersist /\ ~pendingWsSave /\ ~wsDirtyWhileSaving
  /\ ~saveTimer /\ retryTimers = 0
  /\ saves = <<>> /\ resyncs = <<>>

\* C28: whenever the loaded client is quiescent, its slides are the snapshot
\* it recorded as last saved (the first half of the claim; the second half
\* qualifies that snapshot).
C28_NoUnpersistedEdit == Quiescent => getSlidesJson(slides) = lastSavedSlidesJson

\* ------------------------------------------------------------------------
\* Undo, redo and persistence
\* ------------------------------------------------------------------------
\* The client with its local history and its autosave and retry timers
NextUndoSave ==
  \/ LocalEdit
  \/ HistoryTimerFire
  \/ UndoKey
  \/ RedoKey
  \/ AutosaveFire
  \/ handleManualSave
  \/ RetryFire
  \/ StoreUpdate
  \/ RecvUpdate
  \/ RecvError
  \/ ServeResync
  \/ ResyncDone
  \/ Tick

SpecUndoSave == InitOneForeign /\ [][NextUndoSave]_vars

\* an undo or a redo that replaces the slides
HistoryMutation == (UndoKey \/ RedoKey) /\ slides' # slides

\* C29 as stated: an undo or redo that changes the document outside the
\* suppression window sets the dirty flag and schedules a save: the debounce
\* timer is armed, or the flush after the publish in flight is pending.
C29_AsStated ==
  [][(HistoryMutation /\ ~InSuppressWindow)
       => (dirtySinceLastPersist' /\ (saveTimer' \/ (pendingWsSave /\ wsDirtyWhileSaving')))]_vars

\* C29 (amended): such an undo or redo sets the dirty flag; it arms the
\* debounce timer when no publish is in flight and the restored document
\* differs from the last saved snapshot, and the timer sends the restored
\* document; with a publish in flight it marks the flush instead; when the
\* restored document is the last saved snapshot nothing is scheduled.
C29_HistoryMutationDirties ==
  /\ [][(HistoryMutation /\ ~InSuppressWindow) => dirtySinceLastPersist']_vars
  /\ [][(HistoryMutation /\ ~InSuppressWindow /\ ~(wsConnected /\ pendingWsSave))
          => (saveTimer' <=> getSlidesJson(slides') # lastSavedSlidesJson)]_vars
  /\ [][(HistoryMutation /\ ~InSuppressWindow /\ wsConnected /\ pendingWsSave)
          => (wsDirtyWhileSaving' /\ ~saveTimer')]_vars
  /\ [][(AutosaveFire /\ wsConnected /\ ~pendingWsSave)
          => toStore' = Append(toStore, UpdateCommand(slides, instrumentoVersion, "SNAPSHOT_UPDATE"))]_vars

\* the user's edit was published and acknowledged, and an undo has then
\* restored the document before it: the dirty flag is set and the debounce
\* timer is armed
C29_Witness ==
  /\ redoStack # <<>> /\ getSlidesJson(slides) = historyBaselineJson
  /\ dirtySinceLastPersist /\ saveTimer /\ ~pendingWsSave
  /\ getSlidesJson(slides) # lastSavedSlidesJson
  /\ lastSavedSlidesJson = Last(redoStack)
  /\ lastSavedSlidesJson = Stringify(<<MkSlide(1, "b")>>)
  /\ storeSlides = <<MkSlide(1, "b")>>

\* ------------------------------------------------------------------------
\* What sets the dirty flag
\* ------------------------------------------------------------------------
DirtyRaised == ~dirtySinceLastPersist /\ dirtySinceLastPersist'

\* C30: the dirty flag goes from clear to set only in a step that is a local
\* mutation of the slides; a connect, a disconnect or the end of the load
\* that leaves the slides as they are leaves a clear flag clear.
C30_DirtyOnlyByMutation ==
  /\ [][DirtyRaised => (LocalEdit \/ UndoKey \/ RedoKey \/ handleAddSlide \/ handleDeleteSlide)]_vars
  /\ [][((ConnectWs \/ onWebSocketClose \/ LoadOk \/ LoadFail) /\ slides' = slides) => ~DirtyRaised]_vars

\* ------------------------------------------------------------------------
\* Every step of the editor, its store and its collaborators
\* ------------------------------------------------------------------------
Next ==
  \/ LoadOk \/ LoadFail
  \/ ConnectWs \/ onWebSocketClose
  \/ LocalEdit \/ handleAddSlide \/ handleDeleteSlide
  \/ UndoKey \/ RedoKey \/ HistoryTimerFire
  \/ AutosaveFire \/ handleManualSave \/ RetryFire
  \/ StoreUpdate \/ StoreReject \/ ForeignWrite \/ ForeignPublish \/ ForeignConflict \/ ForeignFault
  \/ RecvUpdate \/ RecvError
  \/ ServeResync \/ ResyncDone
  \/ ServeSave \/ SaveDone
  \/ Tick \/ IdleFire

Spec == Init /\ [][Next]_vars

====
